---- MODULE Spec2Model ----
(***************************************************************************)
(* Model of the version/range engine of turron (crates/ruget-semver) and   *)
(* of the version selection policy (crates/ruget-pick-version).            *)
(*                                                                         *)
(* Values are modelled structurally:                                       *)
(*   Identifier    [kind, n, s]   s is the byte string of an AlphaNumeric  *)
(*   Version       [major, minor, patch, revision, pre_release, build]     *)
(*   Predicate     [kind, v]      kind in Excluding / Including / Unbounded*)
(*   Bound         [side, p]      side in Lower / Upper                    *)
(*   ComparatorSet [lower, upper]                                          *)
(*   Range         sequence of ComparatorSet (the comparators Vec)         *)
(*   Option<T>     <<>> for None, <<x>> for Some(x)                        *)
(*   Ordering      "Less" / "Equal" / "Greater"                            *)
(***************************************************************************)
EXTENDS Integers, Sequences, FiniteSets, TLC

VARIABLES
    va, vb, vop, vres, veq, vhash,  \* Version comparison: operands, operation, results
    ra, rb, op, out, outb, panic,   \* Range algebra: operands, operation, results
    steps,                          \* Range algebra: operations applied so far
    pkText, pkReq, pkForce, pkVersions, pkOp, pkOut,  \* pick_version
    ptText, ptV, ptOp, ptOut, ptSat,  \* Range::parse, then satisfies
    ptPrinted, ptOut2,                \* Range::to_string, then Range::parse again
    vtText, vtOp, vtRes, vtPrinted, vtRes2,  \* Version::parse, to_string, parse
    ba, bb, bop, bres, bout,          \* Bound: operands, operation, results
    ida, idb, idop, idres, idpar      \* Identifier: cmp and partial_cmp

vars == <<va, vb, vop, vres, veq, vhash, ra, rb, op, out, outb, panic, steps,
          pkText, pkReq, pkForce, pkVersions, pkOp, pkOut,
          ptText, ptV, ptOp, ptOut, ptSat, ptPrinted, ptOut2,
          vtText, vtOp, vtRes, vtPrinted, vtRes2,
          ba, bb, bop, bres, bout, ida, idb, idop, idres, idpar>>

versionVars == <<va, vb, vop, vres, veq, vhash>>
rangeVars == <<ra, rb, op, out, outb, panic, steps>>
pickVars == <<pkText, pkReq, pkForce, pkVersions, pkOp, pkOut>>
parseVars == <<ptText, ptV, ptOp, ptOut, ptSat, ptPrinted, ptOut2>>
textVars == <<vtText, vtOp, vtRes, vtPrinted, vtRes2>>
boundVars == <<ba, bb, bop, bres, bout>>
identVars == <<ida, idb, idop, idres, idpar>>
restVars == <<textVars, boundVars, identVars>>

----------------------------------------------------------------------------
(* Bounds of the model *)

\* Version components range over 0..MaxComponent in the ordering checks.
MaxComponent == 1
\* Range edges and candidates are written with majors 1..MaxMajor.
MaxMajor == 2
\* A parsed union has at most MaxComparators comparators joined by "||".
MaxComparators == 2
\* pick_version receives at most MaxCandidates candidate versions.
MaxCandidates == 3
\* A session applies at most MaxSteps operations to its ranges.
MaxSteps == 3
\* Version texts are up to LengthSlack bytes shorter than the longest text
\* Version::parse reads.
LengthSlack == 5

----------------------------------------------------------------------------
(* Option, Ordering and integer helpers (Rust core library semantics) *)

None == <<>>
Some(x) == <<x>>
IsSome(o) == Len(o) = 1
Unwrap(o) == o[1]

Reverse(o) == CASE o = "Less" -> "Greater"
                [] o = "Greater" -> "Less"
                [] OTHER -> "Equal"

\* u64::cmp
NumCmp(x, y) == IF x < y THEN "Less" ELSE IF x > y THEN "Greater" ELSE "Equal"

\* a <= b and a < b as PartialOrd derives them from an Ordering
IsLe(o) == o \in {"Less", "Equal"}
IsLt(o) == o = "Less"

----------------------------------------------------------------------------
(* Identifier: lib.rs *)

Numeric(n) == [kind |-> "Numeric", n |-> n, s |-> <<>>]
AlphaNumeric(s) == [kind |-> "AlphaNumeric", n |-> 0, s |-> s]

\* char::to_uppercase on an ASCII byte
UpperByte(c) == IF c >= 97 /\ c <= 122 THEN c - 32 ELSE c

\* String::to_uppercase
ToUppercase(s) == [i \in 1..Len(s) |-> UpperByte(s[i])]

\* str::cmp: lexicographic over bytes, a proper prefix is Less
RECURSIVE StrCmp(_, _)
StrCmp(s, t) ==
    IF s = <<>> /\ t = <<>> THEN "Equal"
    ELSE IF s = <<>> THEN "Less"
    ELSE IF t = <<>> THEN "Greater"
    ELSE IF Head(s) # Head(t) THEN NumCmp(Head(s), Head(t))
    ELSE StrCmp(Tail(s), Tail(t))

\* impl PartialEq for Identifier
IdentifierEq(x, y) ==
    CASE x.kind = "Numeric" /\ y.kind = "Numeric" -> x.n = y.n
      [] x.kind = "AlphaNumeric" /\ y.kind = "AlphaNumeric" ->
            ToUppercase(x.s) = ToUppercase(y.s)
      [] OTHER -> FALSE

\* Identifier::cmp comparing the AlphaNumeric strings as written, without
\* to_uppercase
IdentifierCmpCaseSensitive(x, y) ==
    CASE x.kind = "Numeric" /\ y.kind = "Numeric" -> NumCmp(x.n, y.n)
      [] x.kind = "AlphaNumeric" /\ y.kind = "AlphaNumeric" -> StrCmp(x.s, y.s)
      [] x.kind = "AlphaNumeric" /\ y.kind = "Numeric" -> "Greater"
      [] OTHER -> "Less"

\* impl Ord for Identifier
IdentifierCmp(x, y) ==
    CASE x.kind = "Numeric" /\ y.kind = "Numeric" -> NumCmp(x.n, y.n)
      [] x.kind = "AlphaNumeric" /\ y.kind = "AlphaNumeric" ->
            StrCmp(ToUppercase(x.s), ToUppercase(y.s))
      [] x.kind = "AlphaNumeric" /\ y.kind = "Numeric" -> "Greater"
      [] OTHER -> "Less"

\* impl PartialOrd for Identifier: an Option<Ordering>
IdentifierPartialCmp(x, y) ==
    CASE x.kind = "Numeric" /\ y.kind = "Numeric" -> Some(NumCmp(x.n, y.n))
      [] x.kind = "AlphaNumeric" /\ y.kind = "AlphaNumeric" ->
            Some(StrCmp(ToUppercase(x.s), ToUppercase(y.s)))
      [] OTHER -> None

\* Vec<Identifier> == Vec<Identifier>: same length, elementwise PartialEq
IdentListEq(xs, ys) ==
    /\ Len(xs) = Len(ys)
    /\ \A i \in 1..Len(xs) : IdentifierEq(xs[i], ys[i])

\* Vec<Identifier>::cmp: lexicographic by Ord, a proper prefix is Less
RECURSIVE IdentListCmp(_, _)
IdentListCmp(xs, ys) ==
    IF xs = <<>> /\ ys = <<>> THEN "Equal"
    ELSE IF xs = <<>> THEN "Less"
    ELSE IF ys = <<>> THEN "Greater"
    ELSE LET c == IdentifierCmp(Head(xs), Head(ys))
         IN IF c # "Equal" THEN c ELSE IdentListCmp(Tail(xs), Tail(ys))

----------------------------------------------------------------------------
(* Version: lib.rs *)

Version(major, minor, patch, revision, pre, build) ==
    [major |-> major, minor |-> minor, patch |-> patch, revision |-> revision,
     pre_release |-> pre, build |-> build]

\* impl PartialEq for Version: build is not compared
VersionEq(a, b) ==
    /\ a.major = b.major
    /\ a.minor = b.minor
    /\ a.patch = b.patch
    /\ a.revision = b.revision
    /\ IdentListEq(a.pre_release, b.pre_release)

\* The pre_release match with the (0, _) and (_, 0) arms exchanged: a release
\* sorting below its pre-releases
VersionCmpPreReleaseLowest(a, b) ==
    CASE Len(a.pre_release) = 0 /\ Len(b.pre_release) = 0 -> "Equal"
      [] Len(a.pre_release) = 0 -> "Less"
      [] Len(b.pre_release) = 0 -> "Greater"
      [] OTHER -> IdentListCmp(a.pre_release, b.pre_release)

\* The match on the two pre_release lengths at the end of Version::cmp
VersionCmpPre(a, b) ==
    CASE Len(a.pre_release) = 0 /\ Len(b.pre_release) = 0 -> "Equal"
      [] Len(a.pre_release) = 0 -> "Greater"
      [] Len(b.pre_release) = 0 -> "Less"
      [] OTHER -> IdentListCmp(a.pre_release, b.pre_release)

\* impl Ord for Version
VersionCmp(a, b) ==
    IF NumCmp(a.major, b.major) # "Equal" THEN NumCmp(a.major, b.major)
    ELSE IF NumCmp(a.minor, b.minor) # "Equal" THEN NumCmp(a.minor, b.minor)
    ELSE IF NumCmp(a.patch, b.patch) # "Equal" THEN NumCmp(a.patch, b.patch)
    ELSE IF NumCmp(a.revision, b.revision) # "Equal"
         THEN NumCmp(a.revision, b.revision)
    ELSE VersionCmpPre(a, b)

\* impl Hash for Identifier: what one identifier writes to the hasher, a u64 or
\* the upper-cased string
IdentifierHash(x) ==
    IF x.kind = "Numeric" THEN [kind |-> "u64", n |-> x.n, s |-> <<>>]
    ELSE [kind |-> "str", n |-> 0, s |-> ToUppercase(x.s)]

\* Vec<Identifier>::hash: the length, then every element
IdentListHash(xs) ==
    <<[kind |-> "usize", n |-> Len(xs), s |-> <<>>]>>
    \o [i \in 1..Len(xs) |-> IdentifierHash(xs[i])]

\* A Version::hash that also feeds the build identifiers to the hasher
VersionHashWithBuild(a) ==
    << [kind |-> "u64", n |-> a.major, s |-> <<>>],
       [kind |-> "u64", n |-> a.minor, s |-> <<>>],
       [kind |-> "u64", n |-> a.patch, s |-> <<>>],
       [kind |-> "u64", n |-> a.revision, s |-> <<>>] >>
    \o IdentListHash(a.pre_release) \o IdentListHash(a.build)

\* impl Hash for Version: the sequence of writes to the hasher; two versions
\* with the same writes have the same hash
VersionHash(a) ==
    << [kind |-> "u64", n |-> a.major, s |-> <<>>],
       [kind |-> "u64", n |-> a.minor, s |-> <<>>],
       [kind |-> "u64", n |-> a.patch, s |-> <<>>],
       [kind |-> "u64", n |-> a.revision, s |-> <<>>] >>
    \o IdentListHash(a.pre_release)

VersionLe(a, b) == IsLe(VersionCmp(a, b))
VersionLt(a, b) == IsLt(VersionCmp(a, b))

----------------------------------------------------------------------------
(* The versions the ordering operations are applied to *)

StrAlpha == <<97, 108, 112, 104, 97>>
StrAlphaCap == <<65, 108, 112, 104, 97>>
StrBeta == <<98, 101, 116, 97>>
StrRc == <<114, 99>>

\* The pre-release lists of tests::comparison_with_different_pre_release_version,
\* in the test's ascending order, then the release
PreChain == <<
    <<AlphaNumeric(StrAlpha)>>,
    <<AlphaNumeric(StrAlpha), Numeric(1)>>,
    <<AlphaNumeric(StrAlpha), AlphaNumeric(StrBeta)>>,
    <<AlphaNumeric(StrBeta)>>,
    <<AlphaNumeric(StrBeta), Numeric(2)>>,
    <<AlphaNumeric(StrBeta), Numeric(11)>>,
    <<AlphaNumeric(StrRc), Numeric(1)>>,
    <<>> >>

ChainVersion(i) == Version(1, 0, 0, 0, PreChain[i], <<>>)

Components == 0..MaxComponent

OrderVersions ==
    { Version(ma, mi, pa, re, pre, <<>>) :
        ma \in Components, mi \in Components, pa \in Components, re \in Components,
        pre \in { <<>>, <<AlphaNumeric(StrAlpha)>> } }
    \cup { ChainVersion(i) : i \in 1..Len(PreChain) }
    \cup { Version(1, 0, 0, 0, pre, build) :
             pre \in { <<>>, <<AlphaNumeric(StrAlphaCap), Numeric(1)>>,
                       <<Numeric(0)>> },
             build \in { <<>>, <<Numeric(1)>> } }

NoVersion == Version(0, 0, 0, 0, <<>>, <<>>)

----------------------------------------------------------------------------
(* Predicate and Bound: range.rs *)

Excluding(v) == [kind |-> "Excluding", v |-> v]
Including(v) == [kind |-> "Including", v |-> v]
Unbounded == [kind |-> "Unbounded", v |-> NoVersion]

Lower(p) == [side |-> "Lower", p |-> p]
Upper(p) == [side |-> "Upper", p |-> p]

\* Bound::upper() and Bound::lower()
BoundUpper == Upper(Unbounded)
BoundLower == Lower(Unbounded)

\* Predicate::flip with the Excluding arm returning its argument unchanged
FlipKeepsExcluding(p) ==
    CASE p.kind = "Excluding" -> Excluding(p.v)
      [] p.kind = "Including" -> Excluding(p.v)
      [] OTHER -> Unbounded

\* Predicate::flip
Flip(p) ==
    CASE p.kind = "Excluding" -> Including(p.v)
      [] p.kind = "Including" -> Excluding(p.v)
      [] OTHER -> Unbounded

\* Bound::predicate
PredicateOf(b) == b.p

\* #[derive(PartialEq)] for Predicate, over Version's PartialEq
PredicateEq(p, q) ==
    /\ p.kind = q.kind
    /\ (p.kind # "Unbounded" => VersionEq(p.v, q.v))

\* #[derive(PartialEq)] for Bound
BoundEq(a, b) == a.side = b.side /\ PredicateEq(a.p, b.p)

\* Shape of a bound as the match arms of Bound::cmp see it
Is(b, side, kind) == b.side = side /\ b.p.kind = kind

\* impl Ord for Bound: the match arms in source order, first match wins
BoundCmp(a, b) ==
    LET v1 == a.p.v
        v2 == b.p.v
    IN
    IF \/ Is(a, "Lower", "Unbounded") /\ Is(b, "Lower", "Unbounded")
       \/ Is(a, "Upper", "Unbounded") /\ Is(b, "Upper", "Unbounded")
    THEN "Equal"
    ELSE IF Is(a, "Upper", "Unbounded") \/ Is(b, "Lower", "Unbounded")
    THEN "Greater"
    ELSE IF Is(a, "Lower", "Unbounded") \/ Is(b, "Upper", "Unbounded")
    THEN "Less"
    ELSE IF \/ Is(a, "Upper", "Including") /\ Is(b, "Upper", "Including")
            \/ Is(a, "Upper", "Including") /\ Is(b, "Lower", "Including")
            \/ Is(a, "Upper", "Excluding") /\ Is(b, "Upper", "Excluding")
            \/ Is(a, "Upper", "Excluding") /\ Is(b, "Lower", "Excluding")
            \/ Is(a, "Lower", "Including") /\ Is(b, "Upper", "Including")
            \/ Is(a, "Lower", "Including") /\ Is(b, "Lower", "Including")
            \/ Is(a, "Lower", "Excluding") /\ Is(b, "Lower", "Excluding")
    THEN VersionCmp(v1, v2)
    ELSE IF \/ Is(a, "Lower", "Excluding") /\ Is(b, "Upper", "Excluding")
            \/ Is(a, "Lower", "Including") /\ Is(b, "Upper", "Excluding")
    THEN (IF VersionLe(v2, v1) THEN "Greater" ELSE "Less")
    ELSE IF \/ Is(a, "Upper", "Including") /\ Is(b, "Upper", "Excluding")
            \/ Is(a, "Upper", "Including") /\ Is(b, "Lower", "Excluding")
            \/ Is(a, "Lower", "Excluding") /\ Is(b, "Upper", "Including")
    THEN (IF VersionLt(v2, v1) THEN "Greater" ELSE "Less")
    ELSE IF Is(a, "Lower", "Excluding") /\ Is(b, "Lower", "Including")
    THEN (IF VersionLt(v1, v2) THEN "Less" ELSE "Greater")
    ELSE \* (Lower Including, Lower Excluding) | (Upper Excluding, Lower Including)
         \* | (Upper Excluding, Upper Including)
         (IF VersionLe(v1, v2) THEN "Less" ELSE "Greater")

BoundLe(a, b) == IsLe(BoundCmp(a, b))
BoundLt(a, b) == IsLt(BoundCmp(a, b))

\* std::cmp::max(&a, &b): b unless a compares Greater
BoundMax(a, b) == IF BoundCmp(a, b) = "Greater" THEN a ELSE b

\* std::cmp::min(&a, &b): a unless a compares Greater
BoundMin(a, b) == IF BoundCmp(a, b) = "Greater" THEN b ELSE a

----------------------------------------------------------------------------
(* ComparatorSet: range.rs *)

CSet(lower, upper) == [lower |-> lower, upper |-> upper]

\* #[derive(PartialEq)] for ComparatorSet
CSetEq(x, y) == BoundEq(x.lower, y.lower) /\ BoundEq(x.upper, y.upper)

\* ComparatorSet::new without its first arm: an interval between a version
\* and itself with one edge excluded is returned
CSetNewKeepsEmpty(lower, upper) ==
    IF /\ Is(lower, "Lower", "Including") /\ Is(upper, "Upper", "Including")
       /\ VersionEq(lower.p.v, upper.p.v)
    THEN Some(CSet(Lower(Including(lower.p.v)), Upper(Including(upper.p.v))))
    ELSE IF BoundLe(lower, upper)
    THEN Some(CSet(lower, upper))
    ELSE None

\* ComparatorSet::new
CSetNew(lower, upper) ==
    IF /\ \/ Is(lower, "Lower", "Excluding") /\ Is(upper, "Upper", "Including")
          \/ Is(lower, "Lower", "Including") /\ Is(upper, "Upper", "Excluding")
       /\ VersionEq(lower.p.v, upper.p.v)
    THEN None
    ELSE IF /\ Is(lower, "Lower", "Including") /\ Is(upper, "Upper", "Including")
            /\ VersionEq(lower.p.v, upper.p.v)
    THEN Some(CSet(Lower(Including(lower.p.v)), Upper(Including(upper.p.v))))
    ELSE IF BoundLe(lower, upper)
    THEN Some(CSet(lower, upper))
    ELSE None

\* ComparatorSet::at_least, at_most, exact
AtLeast(p) == CSetNew(Lower(p), BoundUpper)
AtMost(p) == CSetNew(BoundLower, Upper(p))
Exact(v) == CSetNew(Lower(Including(v)), Upper(Including(v)))

\* ComparatorSet::has_pre (the unreachable!() arms have no case here)
CSetHasPre(c) ==
    LET lower_bound ==
            CASE Is(c.lower, "Lower", "Including") -> c.lower.p.v.pre_release # <<>>
              [] Is(c.lower, "Lower", "Excluding") -> c.lower.p.v.pre_release # <<>>
              [] Is(c.lower, "Lower", "Unbounded") -> FALSE
        upper_bound ==
            CASE Is(c.upper, "Upper", "Including") -> c.upper.p.v.pre_release # <<>>
              [] Is(c.upper, "Upper", "Excluding") -> c.upper.p.v.pre_release # <<>>
              [] Is(c.upper, "Upper", "Unbounded") -> FALSE
    IN lower_bound \/ upper_bound

\* ComparatorSet::satisfies (the unreachable!() arms have no case here)
CSetSatisfies(c, version) ==
    LET lower_bound ==
            CASE Is(c.lower, "Lower", "Including") -> VersionLe(c.lower.p.v, version)
              [] Is(c.lower, "Lower", "Excluding") -> VersionLt(c.lower.p.v, version)
              [] Is(c.lower, "Lower", "Unbounded") -> TRUE
        upper_bound ==
            CASE Is(c.upper, "Upper", "Including") -> VersionLe(version, c.upper.p.v)
              [] Is(c.upper, "Upper", "Excluding") -> VersionLt(version, c.upper.p.v)
              [] Is(c.upper, "Upper", "Unbounded") -> TRUE
    IN lower_bound /\ upper_bound

\* has_pre, satisfies and Display reach an unreachable!() arm when the lower
\* field is not a Lower bound or the upper field is not an Upper bound
CSetEdgePanics(c) == c.lower.side # "Lower" \/ c.upper.side # "Upper"

\* ComparatorSet::allows_all
CSetAllowsAll(self, other) ==
    BoundLe(self.lower, other.lower) /\ BoundLe(other.upper, self.upper)

\* ComparatorSet::allows_any
CSetAllowsAny(self, other) ==
    IF BoundLt(other.upper, self.lower) THEN FALSE
    ELSE IF BoundLt(self.upper, other.lower) THEN FALSE
    ELSE TRUE

\* ComparatorSet::intersect
CSetIntersect(self, other) ==
    CSetNew(BoundMax(self.lower, other.lower), BoundMin(self.upper, other.upper))

\* The left piece with the overlap's lower predicate taken as it is, not flipped
LeftPieceUnflipped(self, overlap) ==
    CSetNew(self.lower, Upper(PredicateOf(overlap.lower)))

\* The two pieces ComparatorSet::difference builds around an overlap
LeftPiece(self, overlap) ==
    CSetNew(self.lower, Upper(Flip(PredicateOf(overlap.lower))))
RightPiece(self, overlap) ==
    CSetNew(Lower(Flip(PredicateOf(overlap.upper))), self.upper)

\* ComparatorSet::difference panics when one of the two unwrap() calls meets None
CSetDifferencePanics(self, other) ==
    LET o == CSetIntersect(self, other)
    IN /\ IsSome(o)
       /\ ~CSetEq(Unwrap(o), self)
       /\ BoundLt(self.lower, Unwrap(o).lower)
       /\ BoundLt(Unwrap(o).upper, self.upper)
       /\ (LeftPiece(self, Unwrap(o)) = None \/ RightPiece(self, Unwrap(o)) = None)

\* ComparatorSet::difference: Option<Vec<ComparatorSet>> (when it does not panic)
CSetDifference(self, other) ==
    LET o == CSetIntersect(self, other)
    IN IF IsSome(o)
       THEN LET overlap == Unwrap(o)
            IN IF CSetEq(overlap, self) THEN None
               ELSE IF /\ BoundLt(self.lower, overlap.lower)
                       /\ BoundLt(overlap.upper, self.upper)
               THEN Some(LeftPiece(self, overlap) \o RightPiece(self, overlap))
               ELSE IF BoundLt(self.lower, overlap.lower)
               THEN (IF IsSome(LeftPiece(self, overlap))
                     THEN Some(LeftPiece(self, overlap)) ELSE None)
               ELSE (IF IsSome(RightPiece(self, overlap))
                     THEN Some(RightPiece(self, overlap)) ELSE None)
       ELSE Some(<<self>>)

----------------------------------------------------------------------------
(* Range: range.rs.  A Range is its comparators Vec. *)

\* Range::any
RangeAny == <<Unwrap(CSetNew(BoundLower, BoundUpper))>>

\* #[derive(PartialEq)] for Range
RangeEq(r, s) ==
    /\ Len(r) = Len(s)
    /\ \A i \in 1..Len(r) : CSetEq(r[i], s[i])

\* Option<Range> == Option<Range>
OptRangeEq(x, y) ==
    /\ IsSome(x) = IsSome(y)
    /\ (IsSome(x) => RangeEq(Unwrap(x), Unwrap(y)))

\* Range::has_pre_release
RangeHasPreRelease(r) == \E i \in 1..Len(r) : CSetHasPre(r[i])

\* Range::satisfies
RangeSatisfies(r, version) == \E i \in 1..Len(r) : CSetSatisfies(r[i], version)

\* Range::has_pre_release, Range::satisfies or Range::to_string panics
RangeEdgePanics(r) == \E i \in 1..Len(r) : CSetEdgePanics(r[i])

\* Range::allows_all
RangeAllowsAll(self, other) ==
    \E i \in 1..Len(self) : \E j \in 1..Len(other) : CSetAllowsAll(self[i], other[j])

\* Range::allows_any
RangeAllowsAny(self, other) ==
    \E i \in 1..Len(self) : \E j \in 1..Len(other) : CSetAllowsAny(self[i], other[j])

\* The nested loops "for lefty in self / for righty in other" visit the pairs in
\* this order: pair k, for k in 1..Len(self)*Len(other)
Lefty(self, other, k) == self[((k - 1) \div Len(other)) + 1]
Righty(self, other, k) == other[((k - 1) % Len(other)) + 1]

\* predicates after the first k pairs of Range::intersect's loops
RECURSIVE IntersectLoop(_, _, _)
IntersectLoop(self, other, k) ==
    IF k = 0 THEN <<>>
    ELSE IntersectLoop(self, other, k - 1)
         \o CSetIntersect(Lefty(self, other, k), Righty(self, other, k))

\* Range::intersect without the is_empty() test on the collected predicates
RangeIntersectKeepsEmpty(self, other) ==
    Some(IntersectLoop(self, other, Len(self) * Len(other)))

\* Range::intersect
RangeIntersect(self, other) ==
    LET predicates == IntersectLoop(self, other, Len(self) * Len(other))
    IN IF predicates = <<>> THEN None ELSE Some(predicates)

\* predicates after the first k pairs of Range::difference's loops
RECURSIVE DifferenceLoop(_, _, _)
DifferenceLoop(self, other, k) ==
    IF k = 0 THEN <<>>
    ELSE LET d == CSetDifference(Lefty(self, other, k), Righty(self, other, k))
         IN DifferenceLoop(self, other, k - 1) \o (IF IsSome(d) THEN Unwrap(d) ELSE <<>>)

\* Range::difference panics when a pairwise difference does
RangeDifferencePanics(self, other) ==
    \E k \in 1..(Len(self) * Len(other)) :
        CSetDifferencePanics(Lefty(self, other, k), Righty(self, other, k))

\* Range::difference
RangeDifference(self, other) ==
    LET predicates == DifferenceLoop(self, other, Len(self) * Len(other))
    IN IF predicates = <<>> THEN None ELSE Some(predicates)

\* "v satisfies r" for an Option<Range>: None is satisfied by no version
OptSatisfies(o, version) == IsSome(o) /\ RangeSatisfies(Unwrap(o), version)


----------------------------------------------------------------------------
(* The range grammar: range.rs.  A text is modelled by its tokens.          *)
(* A component token is absent, the wildcard "*", a number, or a letter     *)
(* such as "x"; a partial version text is four component tokens and the     *)
(* extras, every identifier of the extras as its bytes; a comparator text   *)
(* is one of the three alternatives of `comparators`; a range text is the   *)
(* sequence of comparator texts separated by "||".                          *)

TokNone == [t |-> "none", n |-> 0]
TokStar == [t |-> "star", n |-> 0]
TokNum(n) == [t |-> "num", n |-> n]
\* the letter "x" where a component is expected
TokX == [t |-> "x", n |-> 0]

PVText(major, minor, patch, revision, pre, build) ==
    [major |-> major, minor |-> minor, patch |-> patch, revision |-> revision,
     pre_release |-> pre, build |-> build]

\* the empty partial version text
PVEmpty == PVText(TokNone, TokNone, TokNone, TokNone, <<>>, <<>>)

BracketsText(open, lower, comma, upper, close) ==
    [form |-> "brackets", open |-> open, lower |-> lower, comma |-> comma,
     upper |-> upper, close |-> close, operation |-> "none"]
OpText(operation, pv) ==
    [form |-> "op", open |-> "", lower |-> pv, comma |-> FALSE,
     upper |-> PVEmpty, close |-> "", operation |-> operation]
PlainText(pv) ==
    [form |-> "plain", open |-> "", lower |-> pv, comma |-> FALSE,
     upper |-> PVEmpty, close |-> "", operation |-> "none"]

\* opt(alt((number, map(tag("*"), |_| 0)))) and maybe_dot_number on one token
Component(tok) ==
    CASE tok.t = "num" -> Some(tok.n)
      [] tok.t = "star" -> Some(0)
      [] OTHER -> None

IsDigit(c) == c >= 48 /\ c <= 57

\* The value of a string of decimal digits
RECURSIVE DigitsValue(_)
DigitsValue(s) ==
    IF s = <<>> THEN 0
    ELSE 10 * DigitsValue(SubSeq(s, 1, Len(s) - 1)) + (s[Len(s)] - 48)

\* write!(f, "{}", n) for a u64
RECURSIVE NumToDigits(_)
NumToDigits(n) ==
    IF n < 10 THEN <<48 + n>> ELSE Append(NumToDigits(n \div 10), 48 + (n % 10))

\* identifier: str::parse::<u64>(s) when it succeeds, the string otherwise.
\* The identifiers written here have a few digits at most, so a string of
\* digits always fits a u64.
IdentifierParse(s) ==
    IF s # <<>> /\ (\A i \in 1..Len(s) : IsDigit(s[i]))
    THEN Numeric(DigitsValue(s))
    ELSE AlphaNumeric(s)

\* impl Display for Identifier
IdentifierDisplay(x) == IF x.kind = "Numeric" THEN NumToDigits(x.n) ELSE x.s

\* pre_release / build: separated_list1(tag("."), identifier) after the sign
IdentListParse(ss) == [i \in 1..Len(ss) |-> IdentifierParse(ss[i])]

\* partial_version: every part is optional, so it succeeds on any text,
\* the empty one included.  A component that is neither a number nor "*"
\* reads as absent and is left in the input; the three maybe_dot_number
\* parsers run one after the other, so once one of them reads nothing the
\* later ones stand at the same place and read nothing either.
PartialVersion(text) ==
    LET minor == Component(text.minor)
        patch == IF IsSome(minor) THEN Component(text.patch) ELSE None
        revision == IF IsSome(patch) THEN Component(text.revision) ELSE None
    IN [major |-> Component(text.major), minor |-> minor,
        patch |-> patch, revision |-> revision,
        pre_release |-> IdentListParse(text.pre_release),
        build |-> IdentListParse(text.build)]

\* partial_version has consumed the whole of its text: no component was left
\* unread
PVConsumed(text) ==
    /\ \A tok \in {text.major, text.minor, text.patch, text.revision} : tok.t # "x"
    /\ text.minor.t = "none" => text.patch.t = "none"
    /\ text.patch.t = "none" => text.revision.t = "none"

\* operation: the tags ">=", ">", "=", "<=", "<"; any other sign is an error
OperationParse(sign) ==
    IF sign \in {"GreaterThanEquals", "GreaterThan", "Exact", "LessThanEquals",
                 "LessThan"}
    THEN Some(sign) ELSE None

\* Option<u64>::unwrap_or(d)
UnwrapOr(o, d) == IF IsSome(o) THEN Unwrap(o) ELSE d

\* The Version built with unwrap_or(0) on every component
VersionOfPartial(pv) ==
    Version(UnwrapOr(pv.major, 0), UnwrapOr(pv.minor, 0), UnwrapOr(pv.patch, 0),
            UnwrapOr(pv.revision, 0), pv.pre_release, pv.build)

\* plain_version_range with an upper edge that carries no pre_release
PlainVersionRangeNoMarker(text) ==
    LET pv == PartialVersion(text)
    IN CSetNew(
         Lower(Including(VersionOfPartial(pv))),
         Upper(Excluding(Version(
             IF IsSome(pv.major) THEN Unwrap(pv.major) + 1 ELSE 1,
             0, 0, 0, <<>>, <<>>))))

\* plain_version_range
PlainVersionRange(text) ==
    LET pv == PartialVersion(text)
    IN CSetNew(
         Lower(Including(VersionOfPartial(pv))),
         Upper(Excluding(Version(
             IF IsSome(pv.major) THEN Unwrap(pv.major) + 1 ELSE 1,
             0, 0, 0, <<Numeric(0)>>, <<>>))))

\* brackets_range with the closing bracket read as "]" whatever was written
BracketsRangeClosed(text) ==
    CSetNew(Lower(IF text.open = "(" THEN Excluding(VersionOfPartial(PartialVersion(text.lower)))
                  ELSE Including(VersionOfPartial(PartialVersion(text.lower)))),
            Upper(Including(VersionOfPartial(PartialVersion(text.upper)))))

\* brackets_range: opt(partial_version) is Some for every text, because
\* partial_version accepts the empty text
BracketsRange(text) ==
    LET lower == Some(PartialVersion(text.lower))
        upper == Some(PartialVersion(text.upper))
        lower_bound ==
            IF IsSome(lower)
            THEN Lower(IF text.open = "(" THEN Excluding(VersionOfPartial(Unwrap(lower)))
                       ELSE Including(VersionOfPartial(Unwrap(lower))))
            ELSE BoundLower
    IN IF IsSome(upper)
       THEN CSetNew(lower_bound,
                Upper(IF text.close = ")" THEN Excluding(VersionOfPartial(Unwrap(upper)))
                      ELSE Including(VersionOfPartial(Unwrap(upper)))))
       ELSE IF text.comma
       THEN CSetNew(lower_bound, BoundUpper)
       ELSE IF IsSome(lower)
       THEN CSetNew(lower_bound,
                Upper(IF text.close = ")" THEN Excluding(VersionOfPartial(Unwrap(lower)))
                      ELSE Including(VersionOfPartial(Unwrap(lower)))))
       ELSE None

\* any_operation_followed_by_version reaches its unreachable!() arm: an
\* operator other than ">=" and "<" with a component present after an absent
\* minor or patch
AnyOperationPanics(text) ==
    LET pv == PartialVersion(text.lower)
    IN /\ text.operation \in {"GreaterThan", "LessThanEquals", "Exact"}
       /\ \/ ~IsSome(pv.minor) /\ (IsSome(pv.patch) \/ IsSome(pv.revision))
          \/ ~IsSome(pv.patch) /\ IsSome(pv.revision)

\* any_operation_followed_by_version: the match arms in source order
AnyOperationFollowedByVersion(text) ==
    LET pv == PartialVersion(text.lower)
        o == text.operation
        major == UnwrapOr(pv.major, 0)
        mi == IsSome(pv.minor)
        pa == IsSome(pv.patch)
        re == IsSome(pv.revision)
        pre == pv.pre_release
        build == pv.build
        marker == <<Numeric(0)>>
    IN
    IF o = "GreaterThanEquals"
    THEN AtLeast(Including(VersionOfPartial(pv)))
    ELSE IF o = "GreaterThan" /\ mi /\ pa /\ re
    THEN AtLeast(Excluding(Version(major, Unwrap(pv.minor), Unwrap(pv.patch),
                                   Unwrap(pv.revision), pre, build)))
    ELSE IF o = "GreaterThan" /\ mi /\ pa /\ ~re
    THEN AtLeast(Excluding(Version(major, Unwrap(pv.minor), Unwrap(pv.patch), 0,
                                   pre, build)))
    ELSE IF o = "GreaterThan" /\ mi /\ ~pa /\ ~re
    THEN AtLeast(Including(Version(major, Unwrap(pv.minor) + 1, 0, 0, pre, build)))
    ELSE IF o = "GreaterThan" /\ ~mi /\ ~pa /\ ~re
    THEN AtLeast(Including(Version(
             IF IsSome(pv.major) THEN Unwrap(pv.major) + 1 ELSE 0, 0, 0, 0, pre, build)))
    ELSE IF o = "LessThan" /\ mi /\ pa /\ ~re
    THEN AtMost(Excluding(Version(major, Unwrap(pv.minor), Unwrap(pv.patch), 0,
                                  pre, build)))
    ELSE IF o = "LessThan" /\ mi /\ ~pa /\ ~re
    THEN AtMost(Excluding(Version(major, Unwrap(pv.minor), 0, 0, marker, build)))
    ELSE IF o = "LessThan"
    THEN AtMost(Excluding(VersionOfPartial(pv)))
    ELSE IF o = "LessThanEquals" /\ ~mi /\ ~pa /\ ~re
    THEN AtMost(Including(Version(major, 0, 0, 0, marker, build)))
    ELSE IF o = "LessThanEquals" /\ mi /\ ~pa /\ ~re
    THEN AtMost(Including(Version(major, Unwrap(pv.minor), 0, 0, marker, build)))
    ELSE IF o = "LessThanEquals" /\ mi /\ pa /\ ~re
    THEN AtMost(Including(Version(major, Unwrap(pv.minor), Unwrap(pv.patch), 0,
                                  pre, build)))
    ELSE IF o = "LessThanEquals" /\ mi /\ pa /\ re
    THEN AtMost(Including(Version(major, Unwrap(pv.minor), Unwrap(pv.patch),
                                  Unwrap(pv.revision), pre, build)))
    ELSE IF o = "Exact" /\ ~mi /\ ~pa /\ ~re
    THEN Exact(Version(major, 0, 0, 0, pre, build))
    ELSE IF o = "Exact" /\ mi /\ ~pa /\ ~re
    THEN Exact(Version(major, Unwrap(pv.minor), 0, 0, pre, build))
    ELSE IF o = "Exact" /\ mi /\ pa /\ ~re
    THEN Exact(Version(major, Unwrap(pv.minor), Unwrap(pv.patch), 0, pre, build))
    ELSE IF o = "Exact" /\ mi /\ pa /\ re
    THEN Exact(Version(major, Unwrap(pv.minor), Unwrap(pv.patch),
                       Unwrap(pv.revision), pre, build))
    ELSE None  \* unreachable!(): a later component without the earlier one

\* comparators: alt((brackets_range, any_operation_followed_by_version,
\* plain_version_range)) on one comparator text.  When brackets_range or the
\* operator alternative rejects its text, plain_version_range accepts the empty
\* prefix and leaves the text unconsumed, which all_consuming then rejects: the
\* comparator text as a whole yields no ComparatorSet.
Comparators(text) ==
    CASE ~(PVConsumed(text.lower) /\ PVConsumed(text.upper)) -> None
      [] text.form = "brackets" -> BracketsRange(text)
      [] text.form = "op" ->
            IF IsSome(OperationParse(text.operation))
            THEN AnyOperationFollowedByVersion(text) ELSE None
      [] OTHER -> PlainVersionRange(text.lower)

\* Range::parse panics: the operator alternative is tried on a text that
\* brackets_range has refused, and reaches its unreachable!() arm
RangeParsePanics(texts) ==
    \E i \in 1..Len(texts) :
        /\ \A j \in 1..(i - 1) : IsSome(Comparators(texts[j]))
        /\ texts[i].form = "op"
        /\ IsSome(OperationParse(texts[i].operation))
        /\ AnyOperationPanics(texts[i])

\* Range::parse: all_consuming(separated_list1("||", comparators)); None is Err
RangeParse(texts) ==
    IF \A i \in 1..Len(texts) : IsSome(Comparators(texts[i]))
    THEN Some([i \in 1..Len(texts) |-> Unwrap(Comparators(texts[i]))])
    ELSE None


----------------------------------------------------------------------------
(* Version::parse and Version::to_string: lib.rs.  A version text is its    *)
(* one to four number components, each a string of digits, and its          *)
(* pre-release and build parts, each absent (None) or the strings between   *)
(* the dots.  A string is the sequence of its characters' code points.      *)

MAX_LENGTH == 256

\* MAX_SAFE_INTEGER, 900719925474099, as its decimal digits
MAX_SAFE_INTEGER == <<57, 48, 48, 55, 49, 57, 57, 50, 53, 52, 55, 52, 48, 57, 57>>

\* u64::MAX, 18446744073709551615, as its decimal digits
U64Max == <<49, 56, 52, 52, 54, 55, 52, 52, 48, 55, 51, 55, 48, 57, 53, 53, 49,
            54, 49, 53>>

VersionText(core, pre, build) == [core |-> core, pre |-> pre, build |-> build]

\* str::len: the bytes of a string in UTF-8, counted as the pairs of a
\* character and one of its bytes
StrBytes(s) ==
    LET utf8Len(c) ==
            IF c < 128 THEN 1 ELSE IF c < 2048 THEN 2 ELSE IF c < 65536 THEN 3 ELSE 4
    IN Cardinality({p \in (1..Len(s)) \X (1..4) : p[2] <= utf8Len(s[p[1]])})

\* The bytes of strings joined by a one-byte separator
RECURSIVE JoinedBytes(_)
JoinedBytes(ss) ==
    IF ss = <<>> THEN 0
    ELSE StrBytes(Head(ss)) + (IF Len(ss) > 1 THEN 1 ELSE 0) + JoinedBytes(Tail(ss))

\* input.len(): the length of the text in bytes
TextBytes(text) ==
    JoinedBytes(text.core)
    + (IF IsSome(text.pre) THEN 1 + JoinedBytes(Unwrap(text.pre)) ELSE 0)
    + (IF IsSome(text.build) THEN 1 + JoinedBytes(Unwrap(text.build)) ELSE 0)

\* is_alphanumeric(x as u8) || x == '-': the character is cast to its low byte
IsIdentifierChar(c) ==
    LET b == c % 256
    IN \/ (b >= 48 /\ b <= 57) \/ (b >= 65 /\ b <= 90) \/ (b >= 97 /\ b <= 122)
       \/ c = 45

\* A string of digits without its leading zeros ("0" for zero)
RECURSIVE StripZeros(_)
StripZeros(s) ==
    IF Len(s) > 1 /\ Head(s) = 48 THEN StripZeros(Tail(s)) ELSE s

\* x > y for two numbers given as digits without leading zeros
DigitsGreater(x, y) ==
    \/ Len(x) > Len(y)
    \/ Len(x) = Len(y) /\ StrCmp(x, y) = "Greater"

\* number with the ceiling itself refused: value >= MAX_SAFE_INTEGER
NumberKindCeilingRefused(digits) ==
    IF DigitsGreater(StripZeros(digits), U64Max) THEN "ParseIntError"
    ELSE IF ~DigitsGreater(MAX_SAFE_INTEGER, StripZeros(digits)) THEN "MaxIntError"
    ELSE "Ok"

\* number: the error kind it fails with on a string of digits, or "Ok".
\* str::parse::<u64> fails above u64::MAX, then the value is compared with
\* MAX_SAFE_INTEGER.
NumberKind(digits) ==
    IF DigitsGreater(StripZeros(digits), U64Max) THEN "ParseIntError"
    ELSE IF DigitsGreater(StripZeros(digits), MAX_SAFE_INTEGER) THEN "MaxIntError"
    ELSE "Ok"

\* The result of Version::parse: kind "Ok" with the version, or the kind of
\* the error with its offset and, for MaxIntError, the value it carries
ParseResult(kind, offset, value, version) ==
    [kind |-> kind, offset |-> offset, value |-> value, version |-> version]

\* digit1 on a component: it is one digit or more
IsNumberText(s) == s # <<>> /\ \A i \in 1..Len(s) : IsDigit(s[i])

\* The byte offset at which the i-th number component starts
CoreOffset(text, i) ==
    IF i = 1 THEN 0 ELSE JoinedBytes(SubSeq(text.core, 1, i - 1)) + 1

\* take_while(is_alphanumeric(x as u8) || x == '-') reads the whole string
IdentsOk(ss) ==
    \A i \in 1..Len(ss) : \A j \in 1..Len(ss[i]) : IsIdentifierChar(ss[i][j])

\* The bytes that separated_list1(tag("."), identifier) reads of a list:
\* take_while stops at the first character that is not an identifier's
RECURSIVE ListReadBytes(_)
ListReadBytes(ss) ==
    LET s == Head(ss)
        bad == {i \in 1..Len(s) : ~IsIdentifierChar(s[i])}
    IN IF bad = {} /\ Len(ss) > 1
       THEN StrBytes(s) + 1 + ListReadBytes(Tail(ss))
       ELSE IF bad = {} THEN StrBytes(s)
       ELSE StrBytes(SubSeq(s, 1, (CHOOSE i \in bad : \A j \in bad : i <= j) - 1))

\* Version::parse.  The numbers of the version it returns are written in
\* decimal, without leading zeros: they reach MAX_SAFE_INTEGER.
VersionParse(text) ==
    LET \* version_core: the components number rejects, the first of them read
        rejected == {i \in 1..Len(text.core) :
                       ~IsNumberText(text.core[i]) \/ NumberKind(text.core[i]) # "Ok"}
        bad == IF rejected = {} THEN 0
               ELSE CHOOSE i \in rejected : \A j \in rejected : i <= j
        \* version_core: the components that are not written are 0
        component(i) ==
            IF i <= Len(text.core) THEN StripZeros(text.core[i]) ELSE <<48>>
        \* version: the bytes read once the number components are read
        read ==
            JoinedBytes(text.core)
            + (IF IsSome(text.pre)
               THEN 1 + ListReadBytes(Unwrap(text.pre))
                    + (IF IdentsOk(Unwrap(text.pre)) /\ IsSome(text.build)
                       THEN 1 + ListReadBytes(Unwrap(text.build)) ELSE 0)
               ELSE IF IsSome(text.build) THEN 1 + ListReadBytes(Unwrap(text.build))
               ELSE 0)
    IN IF TextBytes(text) > MAX_LENGTH
       THEN ParseResult("MaxLengthError", 0, <<>>, NoVersion)
       ELSE IF bad # 0
       THEN ParseResult(IF IsNumberText(text.core[bad])
                        THEN NumberKind(text.core[bad]) ELSE "Context",
                        CoreOffset(text, bad),
                        IF IsNumberText(text.core[bad])
                           /\ NumberKind(text.core[bad]) = "MaxIntError"
                        THEN StripZeros(text.core[bad]) ELSE <<>>,
                        NoVersion)
       ELSE IF read # TextBytes(text)
       THEN ParseResult("Other", read, <<>>, NoVersion)
       ELSE ParseResult("Ok", 0, <<>>,
                Version(component(1), component(2), component(3), component(4),
                        IF IsSome(text.pre) THEN IdentListParse(Unwrap(text.pre))
                        ELSE <<>>,
                        IF IsSome(text.build) THEN IdentListParse(Unwrap(text.build))
                        ELSE <<>>))

\* impl Display for Version: the revision is written when it is above 0, the
\* pre-release and the build when they are not empty
VersionToString(v) ==
    VersionText(
        IF v.revision # <<48>>
        THEN <<v.major, v.minor, v.patch, v.revision>>
        ELSE <<v.major, v.minor, v.patch>>,
        IF v.pre_release # <<>>
        THEN Some([i \in 1..Len(v.pre_release) |-> IdentifierDisplay(v.pre_release[i])])
        ELSE None,
        IF v.build # <<>>
        THEN Some([i \in 1..Len(v.build) |-> IdentifierDisplay(v.build[i])])
        ELSE None)

----------------------------------------------------------------------------
(* Version selection: ruget-pick-version/src/lib.rs *)

\* Range::is_floating is called by pick_version but defined in no source file;
\* after the specification's glossary a range is floating when it was built from
\* a wildcard or operator form and not from a pinned exact version.
HasWildcard(pv) ==
    \E tok \in {pv.major, pv.minor, pv.patch, pv.revision} : tok.t = "star"
IsFloating(text) ==
    \/ text.form = "op" /\ text.operation # "Exact"
    \/ text.form # "brackets" /\ HasWildcard(text.lower)

\* .filter(|v| include_pre || v.pre_release.is_empty())
Eligible(req, v) == RangeHasPreRelease(req) \/ v.pre_release = <<>>

\* versions.iter().cloned().filter(..).collect()
FilterVersions(req, versions) == SelectSeq(versions, LAMBDA v : Eligible(req, v))

IsSortedAscending(s) ==
    \A i \in 1..Len(s) : \A j \in 1..Len(s) : i < j => VersionLe(s[i], s[j])

\* versions.sort_unstable(): an ascending permutation; versions that compare
\* Equal may come out in either order
SortUnstable(s) ==
    LET n == Len(s)
        perms == { f \in [1..n -> 1..n] : \A i \in 1..n : \E j \in 1..n : f[j] = i }
    IN { t \in { [i \in 1..n |-> s[f[i]]] : f \in perms } : IsSortedAscending(t) }

\* versions.reverse()
ReverseSeq(s) == [i \in 1..Len(s) |-> s[Len(s) + 1 - i]]

\* versions.into_iter().find(|v| req.satisfies(v))
FindSatisfying(req, s) ==
    LET hits == { i \in 1..Len(s) : RangeSatisfies(req, s[i]) }
    IN IF hits = {} THEN None
       ELSE Some(s[CHOOSE i \in hits : \A j \in hits : i <= j])

\* The search order with the force_floating flag left out of the condition
SearchOrderIgnoresForce(floating, force_floating, sorted) ==
    IF floating THEN ReverseSeq(sorted) ELSE sorted

\* The order pick_version searches a sorted list in
SearchOrder(floating, force_floating, sorted) ==
    IF floating \/ force_floating THEN ReverseSeq(sorted) ELSE sorted

\* VersionPicker::pick_version: the results it can return
PickVersion(req, floating, force_floating, versions) ==
    { FindSatisfying(req, SearchOrder(floating, force_floating, sorted)) :
        sorted \in SortUnstable(FilterVersions(req, versions)) }

----------------------------------------------------------------------------
(* Inputs *)

Majors == 1..MaxMajor

\* "m" and "m.0.0"
MajorTexts ==
    { PVText(TokNum(m), TokNone, TokNone, TokNone, <<>>, <<>>) : m \in Majors }
FullTexts ==
    { PVText(TokNum(m), TokNum(0), TokNum(0), TokNone, <<>>, <<>>) : m \in Majors }

Operations ==
    {"Exact", "GreaterThan", "GreaterThanEquals", "LessThan", "LessThanEquals"}

\* Texts of one comparator: every bracket shape over major-only versions and the
\* empty text, every operator over "m" and "m.0.0", the plain "m" and "*"
SingleTexts ==
    { BracketsText(o, l, TRUE, u, c) :
        o \in {"[", "("}, l \in MajorTexts \cup {PVEmpty},
        u \in MajorTexts \cup {PVEmpty}, c \in {"]", ")"} }
    \cup { OpText(o, pv) : o \in Operations, pv \in MajorTexts \cup FullTexts }
    \cup { PlainText(pv) :
             pv \in MajorTexts
                    \cup {PVText(TokStar, TokNone, TokNone, TokNone, <<>>, <<>>)} }

\* Members of a "||" union: closed brackets "[a,b]"
UnionMemberTexts ==
    { BracketsText("[", l, TRUE, u, "]") : l \in MajorTexts, u \in MajorTexts }

RECURSIVE SeqsOfLen(_, _)
SeqsOfLen(S, n) ==
    IF n = 0 THEN { <<>> }
    ELSE { Append(t, x) : t \in SeqsOfLen(S, n - 1), x \in S }

SeqsUpTo(S, n) == UNION { SeqsOfLen(S, k) : k \in 0..n }

RangeTexts ==
    { <<t>> : t \in SingleTexts }
    \cup UNION { SeqsOfLen(UnionMemberTexts, k) : k \in 2..MaxComparators }

\* The ranges the algebra is applied to: every successfully parsed text, and
\* Range::any()
OperandRanges ==
    { Unwrap(RangeParse(t)) : t \in { x \in RangeTexts : IsSome(RangeParse(x)) } }
    \cup { RangeAny }

\* Versions the satisfies() questions are asked about: around every edge
ProbeVersions ==
    { Version(m, mi, 0, 0, pre, <<>>) :
        m \in 0..(MaxMajor + 2), mi \in {0, 1},
        pre \in { <<>>, <<Numeric(0)>>, <<AlphaNumeric(StrAlpha)>> } }

\* Candidates offered to pick_version: a release and a pre-release per major,
\* and one release that differs from another in build metadata only
CandidateVersions ==
    { Version(m, 2, 0, 0, pre, <<>>) :
        m \in Majors, pre \in { <<>>, <<AlphaNumeric(StrBeta)>> } }
    \cup { Version(1, 2, 0, 0, <<>>, <<Numeric(1)>>) }

PickPVTexts ==
    { PVText(TokNum(m), TokNum(2), TokNum(0), TokNone, pre, <<>>) :
        m \in Majors, pre \in { <<>>, <<StrBeta>> } }

\* Requests: plain "m", "m.*" and "*"; ">=", "<=" and "=" over "m.2.0" and
\* "m.2.0-beta"
PickTexts ==
    { PlainText(PVText(TokNum(m), mi, TokNone, TokNone, <<>>, <<>>)) :
        m \in Majors, mi \in {TokNone, TokStar} }
    \cup { PlainText(PVText(TokStar, TokNone, TokNone, TokNone, <<>>, <<>>)) }
    \cup { OpText(o, pv) :
             o \in {"Exact", "GreaterThanEquals", "LessThanEquals"},
             pv \in PickPVTexts }

----------------------------------------------------------------------------
(* Specification of the Version ordering: Version::cmp and Version::eq are   *)
(* applied to two versions.                                                  *)

IdleVersion == /\ va = NoVersion /\ vb = NoVersion /\ vop = "idle"
               /\ vres = "none" /\ veq = FALSE /\ vhash = <<>>
IdleRange == /\ ra = RangeAny /\ rb = RangeAny /\ op = "idle"
             /\ out = None /\ outb = FALSE /\ panic = FALSE /\ steps = 0
IdlePick == /\ pkText = PlainText(PVEmpty) /\ pkReq = RangeAny /\ pkForce = FALSE
            /\ pkVersions = <<>> /\ pkOp = "idle" /\ pkOut = None
IdleParse == /\ ptText = <<>> /\ ptV = NoVersion /\ ptOp = "idle"
             /\ ptOut = None /\ ptSat = FALSE
             /\ ptPrinted = <<>> /\ ptOut2 = None
IdleText == /\ vtText = VersionText(<<>>, None, None) /\ vtOp = "idle"
            /\ vtRes = ParseResult("none", 0, <<>>, NoVersion)
            /\ vtPrinted = VersionText(<<>>, None, None)
            /\ vtRes2 = ParseResult("none", 0, <<>>, NoVersion)
IdleBound == /\ ba = Lower(Unbounded) /\ bb = Lower(Unbounded) /\ bop = "idle"
             /\ bres = "none" /\ bout = Lower(Unbounded)
IdleIdentifier == /\ ida = Numeric(0) /\ idb = Numeric(0) /\ idop = "idle"
                  /\ idres = "none" /\ idpar = None
IdleRest == IdleText /\ IdleBound /\ IdleIdentifier

InitVersion ==
    /\ va \in OrderVersions
    /\ vb \in OrderVersions
    /\ vop = "init"
    /\ vres = "none"
    /\ veq = FALSE
    /\ vhash = <<>>
    /\ IdleRange
    /\ IdlePick
    /\ IdleParse
    /\ IdleRest

\* a.cmp(&b)
Cmp ==
    /\ vop = "init"
    /\ vop' = "cmp"
    /\ vres' = VersionCmp(va, vb)
    /\ UNCHANGED <<va, vb, veq, vhash, rangeVars, pickVars, parseVars,
                 restVars>>

\* a == b
Eq ==
    /\ vop = "init"
    /\ vop' = "eq"
    /\ veq' = VersionEq(va, vb)
    /\ UNCHANGED <<va, vb, vres, vhash, rangeVars, pickVars, parseVars,
                 restVars>>

\* a.hash(state) and b.hash(state), each into a fresh hasher
Hash ==
    /\ vop = "init"
    /\ vop' = "hash"
    /\ vhash' = <<VersionHash(va), VersionHash(vb)>>
    /\ UNCHANGED <<va, vb, vres, veq, rangeVars, pickVars, parseVars,
                 restVars>>

NextVersion == Cmp \/ Eq \/ Hash

SpecVersion == InitVersion /\ [][NextVersion]_vars

----------------------------------------------------------------------------
(* Specification of the range algebra: the operations of Range are applied   *)
(* to two parsed ranges.                                                     *)

\* At most one operand is a union, unless both operands are the same range
Init ==
    /\ ra \in OperandRanges
    /\ rb \in OperandRanges
    /\ (Len(ra) = 1 \/ Len(rb) = 1 \/ ra = rb)
    /\ op = "init"
    /\ out = None
    /\ outb = FALSE
    /\ panic = FALSE
    /\ steps = 0
    /\ IdleVersion
    /\ IdlePick
    /\ IdleParse
    /\ IdleRest

\* ra.intersect(&rb)
Intersect ==
    /\ op = "init"
    /\ op' = "intersect"
    /\ out' = RangeIntersect(ra, rb)
    /\ outb' = FALSE
    /\ panic' = FALSE
    /\ UNCHANGED <<ra, rb, steps, versionVars, pickVars, parseVars,
                 restVars>>

\* ra.difference(&rb)
Difference ==
    /\ op = "init"
    /\ op' = "difference"
    /\ panic' = RangeDifferencePanics(ra, rb)
    /\ out' = IF RangeDifferencePanics(ra, rb) THEN None ELSE RangeDifference(ra, rb)
    /\ outb' = FALSE
    /\ UNCHANGED <<ra, rb, steps, versionVars, pickVars, parseVars,
                 restVars>>

\* ra.allows_all(&rb)
AllowsAll ==
    /\ op = "init"
    /\ op' = "allows_all"
    /\ outb' = RangeAllowsAll(ra, rb)
    /\ out' = None
    /\ panic' = FALSE
    /\ UNCHANGED <<ra, rb, steps, versionVars, pickVars, parseVars,
                 restVars>>

\* ra.allows_any(&rb)
AllowsAny ==
    /\ op = "init"
    /\ op' = "allows_any"
    /\ outb' = RangeAllowsAny(ra, rb)
    /\ out' = None
    /\ panic' = FALSE
    /\ UNCHANGED <<ra, rb, steps, versionVars, pickVars, parseVars,
                 restVars>>

Next == Intersect \/ Difference \/ AllowsAll \/ AllowsAny

Spec == Init /\ [][Next]_vars

----------------------------------------------------------------------------
(* Specification of the version selection: a request is parsed, a picker is  *)
(* built with or without force_floating, and pick_version is called on a     *)
(* slice of candidates.                                                      *)

InitPick ==
    /\ pkText \in { t \in PickTexts : IsSome(RangeParse(<<t>>)) }
    /\ pkReq = Unwrap(RangeParse(<<pkText>>))
    /\ pkForce \in BOOLEAN
    /\ pkVersions \in SeqsUpTo(CandidateVersions, MaxCandidates)
    /\ pkOp = "init"
    /\ pkOut = None
    /\ IdleVersion
    /\ IdleRange
    /\ IdleParse
    /\ IdleRest

\* picker.pick_version(&req, &versions)
Pick ==
    /\ pkOp = "init"
    /\ pkOp' = "pick"
    /\ pkOut' \in PickVersion(pkReq, IsFloating(pkText), pkForce, pkVersions)
    /\ UNCHANGED <<pkText, pkReq, pkForce, pkVersions, versionVars, rangeVars, parseVars,
                 restVars>>

NextPick == Pick

SpecPick == InitPick /\ [][NextPick]_vars

----------------------------------------------------------------------------
(* Specification of the range grammar: Range::parse is applied to a text and *)
(* the parsed range is asked whether a version satisfies it.                 *)

\* impl Display for Version, as the tokens of the written text: the revision
\* is written only when it is not 0
VersionDisplay(v) ==
    PVText(TokNum(v.major), TokNum(v.minor), TokNum(v.patch),
           IF v.revision > 0 THEN TokNum(v.revision) ELSE TokNone,
           [i \in 1..Len(v.pre_release) |-> IdentifierDisplay(v.pre_release[i])],
           [i \in 1..Len(v.build) |-> IdentifierDisplay(v.build[i])])

\* impl Display for ComparatorSet: the arms in source order; the last arm,
\* unreachable!(), is not modelled here (CSetEdgePanics)
CSetDisplay(c) ==
    LET v == VersionDisplay(c.lower.p.v)
        v2 == VersionDisplay(c.upper.p.v)
        lk == c.lower.p.kind
        uk == c.upper.p.kind
    IN CASE lk = "Unbounded" /\ uk = "Unbounded" ->
                PlainText(PVText(TokStar, TokNone, TokNone, TokNone, <<>>, <<>>))
         [] lk = "Unbounded" /\ uk = "Including" ->
                BracketsText("(", PVEmpty, TRUE, v2, "]")
         [] lk = "Unbounded" /\ uk = "Excluding" ->
                BracketsText("(", PVEmpty, TRUE, v2, ")")
         [] lk = "Including" /\ uk = "Unbounded" ->
                BracketsText("[", v, TRUE, PVEmpty, ")")
         [] lk = "Excluding" /\ uk = "Unbounded" ->
                BracketsText("(", v, TRUE, PVEmpty, ")")
         [] lk = "Including" /\ uk = "Including"
              /\ VersionEq(c.lower.p.v, c.upper.p.v) ->
                BracketsText("[", v, FALSE, PVEmpty, "]")
         [] OTHER ->
                BracketsText(IF lk = "Including" THEN "[" ELSE "(", v, TRUE, v2,
                             IF uk = "Including" THEN "]" ELSE ")")

\* impl Display for Range: the comparators joined by "||"
RangeDisplay(r) == [i \in 1..Len(r) |-> CSetDisplay(r[i])]

ComponentTokens == { TokNone } \cup { TokNum(n) : n \in Components }

\* Versions written with one to four numbers: "m", "m.n", "m.n.p", "m.n.p.r"
NumericTexts ==
    { PVText(TokNum(m), mi, pa, re, <<>>, <<>>) :
        m \in Majors, mi \in ComponentTokens, pa \in ComponentTokens,
        re \in { TokNone, TokNum(1) } }
    \ { t \in [major : {TokNum(m) : m \in Majors}, minor : ComponentTokens,
                patch : ComponentTokens, revision : { TokNone, TokNum(1) },
                pre_release : { <<>> }, build : { <<>> }] :
           \/ t.minor = TokNone /\ t.patch # TokNone
           \/ t.patch = TokNone /\ t.revision # TokNone }

\* "1.2.3", the version of the bracket examples
Text123 == PVText(TokNum(1), TokNum(2), TokNum(3), TokNone, <<>>, <<>>)

\* Versions printed by to_string() and read back after "="
PrintedVersions ==
    { Version(1, 1, 0, re, pre, build) :
        re \in {0, 1},
        pre \in { <<>>, <<AlphaNumeric(StrAlpha), Numeric(1)>>, <<Numeric(0)>> },
        build \in { <<>>, <<Numeric(1)>> } }

\* Plain texts ending in a wildcard "*" or in the letter "x", and the bare
\* "*" and "x"
WildcardTexts ==
    { PVText(TokNum(m), w, TokNone, TokNone, <<>>, <<>>) :
        m \in Majors, w \in {TokStar, TokX} }
    \cup { PVText(TokNum(m), TokNum(n), w, TokNone, <<>>, <<>>) :
             m \in Majors, n \in Components, w \in {TokStar, TokX} }
    \cup { PVText(w, TokNone, TokNone, TokNone, <<>>, <<>>) : w \in {TokStar, TokX} }

BracketSides == MajorTexts \cup { PVEmpty, Text123 }

\* The comparator texts handed to Range::parse
ParseTexts ==
    { OpText(o, pv) : o \in Operations, pv \in NumericTexts }
    \cup { OpText("Exact", VersionDisplay(v)) : v \in PrintedVersions }
    \cup { OpText(sign, pv) : sign \in {"Caret", "Tilde"},
                              pv \in { Text123 } \cup MajorTexts }
    \cup { PlainText(pv) : pv \in NumericTexts \cup WildcardTexts \cup { PVEmpty } }
    \cup { BracketsText(o, l, comma, u, c) :
             o \in {"[", "("}, l \in BracketSides, comma \in BOOLEAN,
             u \in BracketSides, c \in {"]", ")"} }

\* The versions the parsed range is asked about
ParseProbes ==
    { Version(m, mi, pa, re, pre, <<>>) :
        m \in 0..(MaxMajor + 1), mi \in 0..2, pa \in 0..3, re \in {0, 1},
        pre \in { <<>>, <<Numeric(0)>>, <<AlphaNumeric(StrAlpha)>> } }
    \cup PrintedVersions

InitParse ==
    /\ ptText \in { <<t>> : t \in ParseTexts }
    /\ ptV \in ParseProbes
    /\ ptOp = "init"
    /\ ptOut = None
    /\ ptSat = FALSE
    /\ ptPrinted = <<>>
    /\ ptOut2 = None
    /\ IdleVersion
    /\ IdleRange
    /\ IdlePick
    /\ IdleRest

\* Range::parse(text)
Parse ==
    /\ ptOp = "init"
    /\ ptOp' = "parse"
    /\ ptOut' = RangeParse(ptText)
    /\ UNCHANGED <<ptText, ptV, ptSat, ptPrinted, ptOut2, versionVars, rangeVars, pickVars,
                 restVars>>

\* range.satisfies(&v) on the Ok result of Range::parse
Satisfies ==
    /\ ptOp = "parse"
    /\ IsSome(ptOut)
    /\ ptOp' = "satisfies"
    /\ ptSat' = RangeSatisfies(Unwrap(ptOut), ptV)
    /\ UNCHANGED <<ptText, ptV, ptOut, ptPrinted, ptOut2, versionVars, rangeVars, pickVars,
                 restVars>>

NextParse == Parse \/ Satisfies

SpecParse == InitParse /\ [][NextParse]_vars

----------------------------------------------------------------------------
(* Specification of the range text: a range is obtained from Range::parse or *)
(* from Range::any, printed with to_string, and the printed text is parsed   *)
(* again.                                                                    *)

\* The texts handed to Range::parse: one comparator, or a union of two
InitRangeText ==
    /\ ptText \in { <<t>> : t \in ParseTexts }
                \cup { <<t, u>> :
                         t \in UnionMemberTexts,
                         u \in UnionMemberTexts
                               \cup { OpText("GreaterThan", pv) : pv \in FullTexts } }
    /\ ptV = NoVersion
    /\ ptOp = "init"
    /\ ptOut = None
    /\ ptSat = FALSE
    /\ ptPrinted = <<>>
    /\ ptOut2 = None
    /\ IdleVersion
    /\ IdleRange
    /\ IdlePick
    /\ IdleRest

\* Range::any()
AnyRange ==
    /\ ptOp = "init"
    /\ ptOp' = "any"
    /\ ptOut' = Some(RangeAny)
    /\ UNCHANGED <<ptText, ptV, ptSat, ptPrinted, ptOut2, versionVars, rangeVars,
                   pickVars, restVars>>

\* range.to_string() on the range obtained; the unreachable!() arm of
\* Display panics
ToStringRange ==
    /\ ptOp \in {"parse", "any"}
    /\ IsSome(ptOut)
    /\ ptOp' = IF RangeEdgePanics(Unwrap(ptOut)) THEN "panic" ELSE "to_string"
    /\ ptPrinted' = IF RangeEdgePanics(Unwrap(ptOut)) THEN <<>>
                    ELSE RangeDisplay(Unwrap(ptOut))
    /\ UNCHANGED <<ptText, ptV, ptSat, ptOut, ptOut2, versionVars, rangeVars,
                   pickVars, restVars>>

\* Range::parse(range.to_string())
ReparseRange ==
    /\ ptOp = "to_string"
    /\ ptOp' = "reparse"
    /\ ptOut2' = RangeParse(ptPrinted)
    /\ UNCHANGED <<ptText, ptV, ptSat, ptOut, ptPrinted, versionVars, rangeVars,
                   pickVars, restVars>>

NextRangeText == Parse \/ AnyRange \/ ToStringRange \/ ReparseRange

SpecRangeText == InitRangeText /\ [][NextRangeText]_vars

----------------------------------------------------------------------------
(* Specification of a session: starting from Range::any(), texts are parsed  *)
(* and the operations of Range are applied to the ranges obtained so far,    *)
(* results included.  ra is the range obtained last, rb the one before it.   *)

\* Texts parsed in a session: two-sided brackets of every shape, every
\* operator over "m.0.0", ">" and "<=" over "m", the plain "m", the empty
\* text, unions of two single versions, ">.1" read with no major, and texts
\* that are refused: "m.x", "^m"
SessionTexts ==
    { <<BracketsText(o, l, TRUE, u, c)>> :
        o \in {"[", "("}, l \in MajorTexts, u \in MajorTexts, c \in {"]", ")"} }
    \cup { <<OpText(o, pv)>> : o \in Operations, pv \in FullTexts }
    \cup { <<OpText(o, pv)>> : o \in {"GreaterThan", "LessThanEquals"},
                               pv \in MajorTexts }
    \cup { <<PlainText(pv)>> : pv \in MajorTexts \cup { PVEmpty } }
    \cup { <<BracketsText("[", l, TRUE, l, "]"), BracketsText("[", u, TRUE, u, "]")>> :
             l \in MajorTexts, u \in MajorTexts }
    \cup { <<OpText("GreaterThan",
                    PVText(TokNone, TokNum(1), TokNone, TokNone, <<>>, <<>>))>> }
    \cup { <<PlainText(PVText(TokNum(m), TokX, TokNone, TokNone, <<>>, <<>>))>> :
             m \in Majors }
    \cup { <<OpText("Caret", pv)>> : pv \in MajorTexts }

\* Versions a session asks satisfies() about
SessionProbes ==
    { Version(m, 0, 0, 0, pre, <<>>) :
        m \in 0..(MaxMajor + 1), pre \in { <<>>, <<Numeric(0)>> } }

InitSession ==
    /\ ra = RangeAny
    /\ rb = RangeAny
    /\ op = "init"
    /\ out = None
    /\ outb = FALSE
    /\ panic = FALSE
    /\ steps = 0
    /\ IdleVersion
    /\ IdlePick
    /\ IdleParse
    /\ IdleRest

\* Range::parse(text); an Ok result becomes the range obtained last
SessionParse ==
    /\ steps < MaxSteps /\ ~panic
    /\ \E text \in SessionTexts :
          /\ panic' = RangeParsePanics(text)
          /\ out' = IF RangeParsePanics(text) THEN None ELSE RangeParse(text)
    /\ op' = "parse"
    /\ ra' = IF IsSome(out') THEN Unwrap(out') ELSE ra
    /\ rb' = IF IsSome(out') THEN ra ELSE rb
    /\ outb' = FALSE
    /\ steps' = steps + 1
    /\ UNCHANGED <<versionVars, pickVars, parseVars,
                 restVars>>

\* x.intersect(&y) on the two ranges in either order; a Some result becomes
\* the range obtained last
SessionIntersect ==
    /\ steps < MaxSteps /\ ~panic
    /\ \E pair \in { <<ra, rb>>, <<rb, ra>> } :
          out' = RangeIntersect(pair[1], pair[2])
    /\ op' = "intersect"
    /\ panic' = FALSE
    /\ ra' = IF IsSome(out') THEN Unwrap(out') ELSE ra
    /\ rb' = IF IsSome(out') THEN ra ELSE rb
    /\ outb' = FALSE
    /\ steps' = steps + 1
    /\ UNCHANGED <<versionVars, pickVars, parseVars,
                 restVars>>

\* x.difference(&y) on the two ranges in either order; a Some result becomes
\* the range obtained last
SessionDifference ==
    /\ steps < MaxSteps /\ ~panic
    /\ \E pair \in { <<ra, rb>>, <<rb, ra>> } :
          /\ panic' = RangeDifferencePanics(pair[1], pair[2])
          /\ out' = IF RangeDifferencePanics(pair[1], pair[2]) THEN None
                    ELSE RangeDifference(pair[1], pair[2])
    /\ op' = "difference"
    /\ ra' = IF IsSome(out') THEN Unwrap(out') ELSE ra
    /\ rb' = IF IsSome(out') THEN ra ELSE rb
    /\ outb' = FALSE
    /\ steps' = steps + 1
    /\ UNCHANGED <<versionVars, pickVars, parseVars,
                 restVars>>

\* ra.satisfies(&v)
SessionSatisfies ==
    /\ steps < MaxSteps /\ ~panic
    /\ op' = "satisfies"
    /\ panic' = RangeEdgePanics(ra)
    /\ \E v \in SessionProbes :
          outb' = IF RangeEdgePanics(ra) THEN FALSE ELSE RangeSatisfies(ra, v)
    /\ out' = None
    /\ steps' = steps + 1
    /\ UNCHANGED <<ra, rb, versionVars, pickVars, parseVars,
                 restVars>>

\* ra.has_pre_release()
SessionHasPreRelease ==
    /\ steps < MaxSteps /\ ~panic
    /\ op' = "has_pre_release"
    /\ panic' = RangeEdgePanics(ra)
    /\ outb' = IF RangeEdgePanics(ra) THEN FALSE ELSE RangeHasPreRelease(ra)
    /\ out' = None
    /\ steps' = steps + 1
    /\ UNCHANGED <<ra, rb, versionVars, pickVars, parseVars,
                 restVars>>

\* ra.to_string(): every comparator is matched against the arms of Display
SessionToString ==
    /\ steps < MaxSteps /\ ~panic
    /\ op' = "to_string"
    /\ panic' = RangeEdgePanics(ra)
    /\ outb' = FALSE
    /\ out' = None
    /\ steps' = steps + 1
    /\ UNCHANGED <<ra, rb, versionVars, pickVars, parseVars,
                 restVars>>

\* ra.allows_all(&rb) and ra.allows_any(&rb): comparisons of bounds only
SessionAllows ==
    /\ steps < MaxSteps /\ ~panic
    /\ \/ op' = "allows_all" /\ outb' = RangeAllowsAll(ra, rb)
       \/ op' = "allows_any" /\ outb' = RangeAllowsAny(ra, rb)
    /\ panic' = FALSE
    /\ out' = None
    /\ steps' = steps + 1
    /\ UNCHANGED <<ra, rb, versionVars, pickVars, parseVars,
                 restVars>>

NextSession ==
    \/ SessionParse
    \/ SessionIntersect
    \/ SessionDifference
    \/ SessionSatisfies
    \/ SessionHasPreRelease
    \/ SessionToString
    \/ SessionAllows

SpecSession == InitSession /\ [][NextSession]_vars


----------------------------------------------------------------------------
(* Specification of the version text: Version::parse is applied to a text,   *)
(* the version it returns is printed with to_string and the printed text is  *)
(* parsed again.                                                             *)

\* The decimal digits of the number after the one written by s
RECURSIVE DigitsSucc(_)
DigitsSucc(s) ==
    IF s = <<>> THEN <<49>>
    ELSE IF s[Len(s)] = 57 THEN Append(DigitsSucc(SubSeq(s, 1, Len(s) - 1)), 48)
    ELSE Append(SubSeq(s, 1, Len(s) - 1), s[Len(s)] + 1)

\* The texts handed to Version::parse:
\*   shape  every grammar shape over the components 0..MaxComponent and "01",
\*          with pre-releases "alpha", "Alpha.1", "01", "" and U+4E61;
\*   long   texts whose length is around MAX_LENGTH: one identifier of 'a' or
\*          of U+4E61 (three bytes in UTF-8, its low byte that of 'a'), up to
\*          LengthSlack characters shorter than the longest that fits after
\*          "1-", and one character longer;
\*   big    texts with number components around MAX_SAFE_INTEGER and around
\*          u64::MAX, at every position;
\*   bad    texts the grammar rejects: a missing number, a character that no
\*          identifier holds.
VersionTexts ==
    LET numbers == {NumToDigits(n) : n \in 0..MaxComponent} \cup {<<48, 49>>}
        bigs == {MAX_SAFE_INTEGER, DigitsSucc(MAX_SAFE_INTEGER),
                 <<48>> \o DigitsSucc(MAX_SAFE_INTEGER), U64Max, DigitsSucc(U64Max)}
        pres == {None, Some(<<StrAlpha>>), Some(<<StrAlphaCap, <<49>>>>),
                 Some(<<<<48, 49>>>>), Some(<<<<>>>>), Some(<<<<20065>>>>)}
        repeat(c, n) == [i \in 1..n |-> c]
        shape ==
            {VersionText(core, pre, build) :
                core \in UNION {[1..n -> numbers] : n \in 1..4},
                pre \in pres,
                build \in {None, Some(<<<<49>>>>)}}
        long ==
            {VersionText(core,
                         Some(<<repeat(c, (MAX_LENGTH - 2) \div StrBytes(<<c>>) + d)>>),
                         None) :
                core \in {<<<<49>>>>, <<<<49>>, <<48>>, <<48>>>>,
                          <<DigitsSucc(MAX_SAFE_INTEGER)>>},
                c \in {97, 20065},
                d \in (0 - LengthSlack)..1}
        big ==
            {VersionText([i \in 1..n |-> IF i = k THEN b ELSE <<49>>], pre, None) :
                n \in 1..4, k \in 1..4, b \in bigs, pre \in {None, Some(<<StrAlpha>>)}}
            \cup {VersionText(<<b1, b2>>, None, None) : b1, b2 \in bigs}
        bad ==
            {VersionText(<<<<>>>>, None, None),
             VersionText(<<<<49>>, <<>>>>, None, None),
             VersionText(<<<<49>>, <<>>, DigitsSucc(MAX_SAFE_INTEGER)>>, None, None),
             VersionText(<<<<49>>>>, Some(<<<<97, 33>>>>), None),
             VersionText(<<<<49>>>>, Some(<<<<97, 33>>, <<98>>>>), Some(<<<<49>>>>)),
             VersionText(<<<<49>>>>, None, Some(<<<<233>>>>))}
    IN shape \cup long \cup big \cup bad

InitText ==
    /\ vtText \in VersionTexts
    /\ vtOp = "init"
    /\ vtRes = ParseResult("none", 0, <<>>, NoVersion)
    /\ vtPrinted = VersionText(<<>>, None, None)
    /\ vtRes2 = ParseResult("none", 0, <<>>, NoVersion)
    /\ IdleVersion
    /\ IdleRange
    /\ IdlePick
    /\ IdleParse
    /\ IdleBound
    /\ IdleIdentifier

\* Version::parse(text)
ParseVersion ==
    /\ vtOp = "init"
    /\ vtRes' = VersionParse(vtText)
    /\ vtOp' = "parsed"
    /\ UNCHANGED <<vtText, vtPrinted, vtRes2, versionVars, rangeVars, pickVars,
                   parseVars, boundVars, identVars>>

\* v.to_string() on the version returned
ToStringVersion ==
    /\ vtOp = "parsed"
    /\ vtRes.kind = "Ok"
    /\ vtPrinted' = VersionToString(vtRes.version)
    /\ vtOp' = "printed"
    /\ UNCHANGED <<vtText, vtRes, vtRes2, versionVars, rangeVars, pickVars,
                   parseVars, boundVars, identVars>>

\* Version::parse(v.to_string())
ReparseVersion ==
    /\ vtOp = "printed"
    /\ vtRes2' = VersionParse(vtPrinted)
    /\ vtOp' = "reparsed"
    /\ UNCHANGED <<vtText, vtRes, vtPrinted, versionVars, rangeVars, pickVars,
                   parseVars, boundVars, identVars>>

NextText == ParseVersion \/ ToStringVersion \/ ReparseVersion

SpecText == InitText /\ [][NextText]_vars

----------------------------------------------------------------------------
(* Specification of the Bound ordering: Bound::cmp is applied to two bounds, *)
(* and std::cmp::max / std::cmp::min as ComparatorSet::intersect applies     *)
(* them, to two lower and to two upper bounds.                               *)

\* Every bound over the releases and the "alpha" pre-releases of the majors
Bounds ==
    LET versions == { Version(m, 0, 0, 0, pre, <<>>) :
                        m \in Majors, pre \in { <<>>, <<AlphaNumeric(StrAlpha)>> } }
        predicates == {Unbounded} \cup {Including(v) : v \in versions}
                                  \cup {Excluding(v) : v \in versions}
    IN {Lower(p) : p \in predicates} \cup {Upper(p) : p \in predicates}

InitBound ==
    /\ ba \in Bounds
    /\ bb \in Bounds
    /\ bop = "init"
    /\ bres = "none"
    /\ bout = Lower(Unbounded)
    /\ IdleVersion
    /\ IdleRange
    /\ IdlePick
    /\ IdleParse
    /\ IdleText
    /\ IdleIdentifier

\* a.cmp(&b)
CmpBound ==
    /\ bop = "init"
    /\ bres' = BoundCmp(ba, bb)
    /\ bop' = "cmp"
    /\ UNCHANGED <<ba, bb, bout, versionVars, rangeVars, pickVars, parseVars,
                   textVars, identVars>>

\* std::cmp::max(&self.lower, &other.lower)
MaxBound ==
    /\ bop = "init"
    /\ ba.side = "Lower" /\ bb.side = "Lower"
    /\ bout' = BoundMax(ba, bb)
    /\ bop' = "max"
    /\ UNCHANGED <<ba, bb, bres, versionVars, rangeVars, pickVars, parseVars,
                   textVars, identVars>>

\* std::cmp::min(&self.upper, &other.upper)
MinBound ==
    /\ bop = "init"
    /\ ba.side = "Upper" /\ bb.side = "Upper"
    /\ bout' = BoundMin(ba, bb)
    /\ bop' = "min"
    /\ UNCHANGED <<ba, bb, bres, versionVars, rangeVars, pickVars, parseVars,
                   textVars, identVars>>

NextBound == CmpBound \/ MaxBound \/ MinBound

SpecBound == InitBound /\ [][NextBound]_vars

----------------------------------------------------------------------------
(* Specification of the Identifier ordering: cmp and partial_cmp are applied *)
(* to two identifiers.                                                       *)

\* The identifiers compared: numbers, words in both letter cases, the empty
\* identifier
InitIdentifier ==
    /\ LET ids == { Numeric(n) : n \in 0..(MaxComponent + 1) }
                  \cup { AlphaNumeric(str) :
                           str \in { StrAlpha, StrAlphaCap, StrBeta, StrRc, <<>> } }
       IN ida \in ids /\ idb \in ids
    /\ idop = "init"
    /\ idres = "none"
    /\ idpar = None
    /\ IdleVersion
    /\ IdleRange
    /\ IdlePick
    /\ IdleParse
    /\ IdleText
    /\ IdleBound

\* a.cmp(&b)
CmpIdentifier ==
    /\ idop = "init"
    /\ idop' = "cmp"
    /\ idres' = IdentifierCmp(ida, idb)
    /\ UNCHANGED <<ida, idb, idpar, versionVars, rangeVars, pickVars, parseVars,
                   textVars, boundVars>>

\* a.partial_cmp(&b)
PartialCmpIdentifier ==
    /\ idop = "init"
    /\ idop' = "partial_cmp"
    /\ idpar' = IdentifierPartialCmp(ida, idb)
    /\ UNCHANGED <<ida, idb, idres, versionVars, rangeVars, pickVars, parseVars,
                   textVars, boundVars>>

NextIdentifier == CmpIdentifier \/ PartialCmpIdentifier

SpecIdentifier == InitIdentifier /\ [][NextIdentifier]_vars

----------------------------------------------------------------------------
(* Properties *)

SingleIntervals == Len(ra) = 1 /\ Len(rb) = 1

\* C1: after ra.intersect(rb), a version satisfies the result (None being
\* satisfied by no version) if and only if it satisfies ra and satisfies rb.
C1_IntersectIsConjunction ==
    op = "intersect" =>
        \A v \in ProbeVersions :
            OptSatisfies(out, v) <=> (RangeSatisfies(ra, v) /\ RangeSatisfies(rb, v))

\* C2: intersection is commutative: ra.intersect(rb) == rb.intersect(ra), both
\* None or both equal Range values.
C2_IntersectCommutes ==
    op = "intersect" => OptRangeEq(out, RangeIntersect(rb, ra))

\* C3: difference and intersection cover ra: after ra.difference(rb), which
\* returns, a version satisfies ra if and only if it satisfies the difference or
\* satisfies ra.intersect(rb), None being satisfied by no version.
C3_DifferenceIntersectCover ==
    op = "difference" =>
        LET overlap == RangeIntersect(ra, rb)
        IN /\ ~panic
           /\ \A v \in ProbeVersions :
                 RangeSatisfies(ra, v)
                     <=> (OptSatisfies(out, v) \/ OptSatisfies(overlap, v))

\* C3 witness: a difference of single intervals that split ra in two pieces
C3_Witness ==
    /\ op = "difference"
    /\ SingleIntervals
    /\ IsSome(out)
    /\ Len(Unwrap(out)) = 2
    /\ \E v \in ProbeVersions : RangeSatisfies(ra, v) /\ ~OptSatisfies(out, v)

\* C4: for every range A, a union of several intervals included,
\* A.difference(A) returns None.
C4_SelfDifferenceEmpty ==
    (op = "difference" /\ RangeEq(ra, rb)) => (~panic /\ out = None)


\* A request text that writes a pre-release on one of its versions
TextHasPreRelease(text) ==
    text.lower.pre_release # <<>> \/ text.upper.pre_release # <<>>

\* C5: pick_version returns no candidate that carries a pre-release identifier
\* unless the range itself was written with a pre-release version.
C5_NoPreReleaseUnlessRequested ==
    (pkOp = "pick" /\ IsSome(pkOut) /\ ~TextHasPreRelease(pkText))
        => Unwrap(pkOut).pre_release = <<>>

\* Positions of the candidates that pass the pre-release filter and satisfy
\* the request
EligibleMatches ==
    { i \in 1..Len(pkVersions) :
        Eligible(pkReq, pkVersions[i]) /\ RangeSatisfies(pkReq, pkVersions[i]) }

\* C6: pick_version returns None exactly when no eligible candidate satisfies
\* the range; otherwise it returns one of the eligible satisfying candidates:
\* a greatest one when the range is floating or the picker forces floating, a
\* least one otherwise.
C6_PickGreatestOrLeast ==
    pkOp = "pick" =>
        IF EligibleMatches = {}
        THEN pkOut = None
        ELSE /\ IsSome(pkOut)
             /\ \E i \in EligibleMatches : pkVersions[i] = Unwrap(pkOut)
             /\ \A j \in EligibleMatches :
                    IF IsFloating(pkText) \/ pkForce
                    THEN VersionLe(pkVersions[j], Unwrap(pkOut))
                    ELSE VersionLe(Unwrap(pkOut), pkVersions[j])

\* C6 witness: a forced-floating pick among two matches of different precedence
\* returned the greater, for a request that is not itself floating
C6_Witness ==
    /\ pkOp = "pick"
    /\ pkForce
    /\ ~IsFloating(pkText)
    /\ IsSome(pkOut)
    /\ \E j \in EligibleMatches : VersionLt(pkVersions[j], Unwrap(pkOut))

\* C7: for single intervals, ra.allows_all(rb) returns true only if every
\* version that satisfies rb also satisfies ra.
C7_AllowsAllSound ==
    (op = "allows_all" /\ SingleIntervals /\ outb)
        => \A v \in ProbeVersions : RangeSatisfies(rb, v) => RangeSatisfies(ra, v)

\* C8: for single intervals, ra.allows_any(rb) returns true exactly when
\* ra.intersect(rb) is not None.
C8_AllowsAnyIffIntersects ==
    (op = "allows_any" /\ SingleIntervals)
        => (outb <=> IsSome(RangeIntersect(ra, rb)))

\* C9: Version ordering is a total order consistent with equality: cmp(a,a) is
\* Equal, cmp(a,b) is the reverse of cmp(b,a), cmp(a,b) is Equal if and only if
\* a == b, and a <= b with b <= c implies a <= c.
C9_TotalOrder ==
    vop = "cmp" =>
        /\ (va = vb => vres = "Equal")
        /\ vres = Reverse(VersionCmp(vb, va))
        /\ (vres = "Equal" <=> VersionEq(va, vb))
        /\ \A c \in OrderVersions :
              (IsLe(vres) /\ VersionLe(vb, c)) => VersionLe(va, c)

\* C9 witness: two versions written differently (letter case) compared Equal
C9_Witness ==
    /\ vop = "cmp"
    /\ vres = "Equal"
    /\ va.pre_release # vb.pre_release
    /\ va.pre_release # <<>>

\* The precedence rule as the claim words it, stated without the code's
\* comparison operators
LowerByte(c) == IF c >= 65 /\ c <= 90 THEN c + 32 ELSE c
CaselessLess(s, t) ==
    LET ls == [i \in 1..Len(s) |-> LowerByte(s[i])]
        lt == [i \in 1..Len(t) |-> LowerByte(t[i])]
    IN \/ \E k \in 1..Len(lt) :
             /\ k <= Len(ls) => ls[k] < lt[k]
             /\ k > Len(ls) => k = Len(ls) + 1
             /\ \A i \in 1..(k - 1) : i <= Len(ls) /\ ls[i] = lt[i]
IdentBelow(x, y) ==
    \/ x.kind = "Numeric" /\ y.kind = "Numeric" /\ x.n < y.n
    \/ x.kind = "Numeric" /\ y.kind = "AlphaNumeric"
    \/ x.kind = "AlphaNumeric" /\ y.kind = "AlphaNumeric" /\ CaselessLess(x.s, y.s)
PreBelow(p, q) ==
    \/ \E k \in 1..Len(q) :
          /\ k <= Len(p)
          /\ IdentBelow(p[k], q[k])
          /\ \A i \in 1..(k - 1) : ~IdentBelow(p[i], q[i]) /\ ~IdentBelow(q[i], p[i])
    \/ /\ Len(p) < Len(q)
       /\ \A i \in 1..Len(p) : ~IdentBelow(p[i], q[i]) /\ ~IdentBelow(q[i], p[i])
Core(v) == <<v.major, v.minor, v.patch, v.revision>>
Precedes(a, b) ==
    \/ \E k \in 1..4 :
          /\ Core(a)[k] < Core(b)[k]
          /\ \A i \in 1..(k - 1) : Core(a)[i] = Core(b)[i]
    \/ /\ Core(a) = Core(b)
       /\ a.pre_release # <<>>
       /\ (b.pre_release = <<>> \/ PreBelow(a.pre_release, b.pre_release))

\* C10: versions compare by major, minor, patch, revision in that order; with
\* equal numbers a version without pre_release is greater than any with one;
\* two pre_release lists compare element by element (numbers numerically,
\* alphanumerics case-insensitively, numbers below alphanumerics) and a proper
\* prefix is lesser; so the chain 1.0.0-alpha < 1.0.0-alpha.1 < 1.0.0-alpha.beta
\* < 1.0.0-beta < 1.0.0-beta.2 < 1.0.0-beta.11 < 1.0.0-rc.1 < 1.0.0 holds and
\* 1.0.0-alpha.1 equals 1.0.0-Alpha.1.
C10_Precedence ==
    vop = "cmp" =>
        /\ vres = (IF Precedes(va, vb) THEN "Less"
                   ELSE IF Precedes(vb, va) THEN "Greater" ELSE "Equal")
        /\ \A i \in 1..Len(PreChain) : \A j \in 1..Len(PreChain) :
              (i < j /\ va = ChainVersion(i) /\ vb = ChainVersion(j)) => vres = "Less"
        /\ (/\ va = ChainVersion(2)
            /\ vb = Version(1, 0, 0, 0,
                            <<AlphaNumeric(StrAlphaCap), Numeric(1)>>, <<>>))
              => vres = "Equal"

\* C10 witness: 1.0.0-beta.2 was compared with 1.0.0-beta.11 and came out Less
C10_Witness ==
    /\ vop = "cmp"
    /\ va = ChainVersion(5)
    /\ vb = ChainVersion(6)
    /\ vres = "Less"

----------------------------------------------------------------------------
(* Build metadata *)

\* a and b are written alike except for their build identifiers
DifferOnlyInBuild(a, b) ==
    /\ a.major = b.major /\ a.minor = b.minor /\ a.patch = b.patch
    /\ a.revision = b.revision /\ a.pre_release = b.pre_release
    /\ a.build # b.build

\* C11: two versions that differ only in their build identifiers are equal
\* under ==, feed the same data to a hasher, and compare Equal.
C11_BuildNotObservable ==
    DifferOnlyInBuild(va, vb) =>
        /\ vop = "eq" => veq
        /\ vop = "cmp" => vres = "Equal"
        /\ vop = "hash" => vhash[1] = vhash[2]

\* C11 witness: 1.0.0-0 and 1.0.0-0+1 were hashed
C11_Witness ==
    /\ vop = "hash"
    /\ va = Version(1, 0, 0, 0, <<Numeric(0)>>, <<>>)
    /\ vb = Version(1, 0, 0, 0, <<Numeric(0)>>, <<Numeric(1)>>)
    /\ vhash[1] = vhash[2]

----------------------------------------------------------------------------
(* The range grammar *)

\* The version a text of numbers stands for, omitted components read as 0
Written(text) ==
    Version(text.major.n, text.minor.n, text.patch.n, text.revision.n,
            IdentListParse(text.pre_release), IdentListParse(text.build))

\* w stands in the relation named by the operator to v
Holds(operation, w, v) ==
    CASE operation = "Exact" -> VersionEq(w, v)
      [] operation = "GreaterThan" -> VersionLt(v, w)
      [] operation = "GreaterThanEquals" -> VersionLe(v, w)
      [] operation = "LessThan" -> VersionLt(w, v)
      [] OTHER -> VersionLe(w, v)

IsOperatorText ==
    /\ ptText[1].form = "op"
    /\ ptText[1].operation \in Operations
    /\ ptText[1].lower \in NumericTexts

\* C12: an operator range "op V", V written with one to four numbers, parses,
\* and a version w satisfies it exactly when w op V0 holds, V0 being V with the
\* omitted components read as 0; "=" followed by a printed version is satisfied
\* by that version.
C12_OperatorSemantics ==
    /\ (ptOp = "parse" /\ IsOperatorText) => IsSome(ptOut)
    /\ (ptOp = "satisfies" /\ IsOperatorText)
          => (ptSat <=> Holds(ptText[1].operation, ptV, Written(ptText[1].lower)))
    /\ (ptOp = "parse" /\ ptText[1] = OpText("Exact", VersionDisplay(ptV)))
          => IsSome(ptOut)
    /\ (ptOp = "satisfies" /\ ptText[1] = OpText("Exact", VersionDisplay(ptV)))
          => ptSat

\* The number of leading components of a text that are written as numbers
LastExplicit(text) ==
    IF text.major.t # "num" THEN 0
    ELSE IF text.minor.t # "num" THEN 1
    ELSE IF text.patch.t # "num" THEN 2
    ELSE IF text.revision.t # "num" THEN 3
    ELSE 4

\* next(V, k): component k incremented, the components after it zeroed
NextVersionAt(text, k) ==
    CASE k = 1 -> Version(text.major.n + 1, 0, 0, 0, <<>>, <<>>)
      [] k = 2 -> Version(text.major.n, text.minor.n + 1, 0, 0, <<>>, <<>>)
      [] OTHER -> Version(text.major.n, text.minor.n, text.patch.n + 1, 0, <<>>, <<>>)

\* A plain text of one to three numbers, the rest omitted or a wildcard
IsPartialPlainText ==
    /\ ptText[1].form = "plain"
    /\ ptText[1].lower \in NumericTexts \cup WildcardTexts
    /\ LastExplicit(ptText[1].lower) \in 1..3

\* C13: a plain range whose last written number is component k parses, and a
\* release version satisfies it exactly when it lies in [V, next(V, k)).
C13_PlainRangeInterval ==
    /\ (ptOp = "parse" /\ IsPartialPlainText) => IsSome(ptOut)
    /\ (ptOp = "satisfies" /\ IsPartialPlainText /\ ptV.pre_release = <<>>)
          => LET text == ptText[1].lower
                 v == Version(text.major.n, text.minor.n, text.patch.n, 0, <<>>, <<>>)
             IN ptSat <=> /\ VersionLe(v, ptV)
                          /\ VersionLt(ptV, NextVersionAt(text, LastExplicit(text)))

\* The bare wildcard texts "*" and "x"
IsBareWildcardText ==
    /\ ptText[1].form = "plain"
    /\ ptText[1].lower \in
          { PVText(w, TokNone, TokNone, TokNone, <<>>, <<>>) : w \in {TokStar, TokX} }

\* C14: the bare wildcard "*" or "x" parses to the single interval with lower
\* edge Including(0.0.0) and no upper bound, which every version >= 0.0.0
\* satisfies.
C14_BareWildcardIsAny ==
    /\ (ptOp = "parse" /\ IsBareWildcardText)
          => ptOut = Some(<<CSet(Lower(Including(NoVersion)), BoundUpper)>>)
    /\ (ptOp = "satisfies" /\ IsBareWildcardText /\ VersionLe(NoVersion, ptV))
          => ptSat

\* "[A,)" with A written as numbers
IsOpenAboveText ==
    /\ ptText[1].form = "brackets" /\ ptText[1].open = "[" /\ ptText[1].comma
    /\ ptText[1].lower \in BracketSides \ { PVEmpty }
    /\ ptText[1].upper = PVEmpty /\ ptText[1].close = ")"

\* "(,B]" with B written as numbers
IsOpenBelowText ==
    /\ ptText[1].form = "brackets" /\ ptText[1].open = "(" /\ ptText[1].comma
    /\ ptText[1].lower = PVEmpty
    /\ ptText[1].upper \in BracketSides \ { PVEmpty } /\ ptText[1].close = "]"

\* "[A]" with A written as numbers
IsSingleVersionText ==
    /\ ptText[1].form = "brackets" /\ ptText[1].open = "[" /\ ~ptText[1].comma
    /\ ptText[1].lower \in BracketSides \ { PVEmpty }
    /\ ptText[1].upper = PVEmpty /\ ptText[1].close = "]"

\* C15: in a bracket range an omitted side is unbounded and a single bracketed
\* version is exact: "[A,)" parses and is satisfied exactly by the versions
\* >= A, "(,B]" parses and is satisfied exactly by the versions <= B, and "[A]"
\* parses and is satisfied by A only.
C15_BracketOmittedSide ==
    /\ (ptOp = "parse"
          /\ (IsOpenAboveText \/ IsOpenBelowText \/ IsSingleVersionText))
          => IsSome(ptOut)
    /\ (ptOp = "satisfies" /\ IsOpenAboveText)
          => (ptSat <=> VersionLe(Written(ptText[1].lower), ptV))
    /\ (ptOp = "satisfies" /\ IsOpenBelowText)
          => (ptSat <=> VersionLe(ptV, Written(ptText[1].upper)))
    /\ (ptOp = "satisfies" /\ IsSingleVersionText)
          => (ptSat <=> VersionEq(ptV, Written(ptText[1].lower)))

\* "[A,B]", "[A,B)", "(A,B]" or "(A,B)" with both versions written as numbers
IsTwoSidedBracketText ==
    /\ ptText[1].form = "brackets" /\ ptText[1].comma
    /\ ptText[1].lower \in BracketSides \ { PVEmpty }
    /\ ptText[1].upper \in BracketSides \ { PVEmpty }

\* The comparator a two-sided bracket text spells out
SpelledOut(text) ==
    CSet(Lower(IF text.open = "[" THEN Including(Written(text.lower))
               ELSE Excluding(Written(text.lower))),
         Upper(IF text.close = "]" THEN Including(Written(text.upper))
               ELSE Excluding(Written(text.upper))))

\* C16: a bracket range with both versions written parses, when its lower
\* version is below its upper version, to the one comparator whose edges are
\* Including for "[" and "]" and Excluding for "(" and ")" at exactly the
\* written versions, and whenever it parses it parses to that comparator.
C16_BracketEdges ==
    (ptOp = "parse" /\ IsTwoSidedBracketText) =>
        /\ VersionLt(Written(ptText[1].lower), Written(ptText[1].upper))
              => IsSome(ptOut)
        /\ IsSome(ptOut) => Unwrap(ptOut) = <<SpelledOut(ptText[1])>>

\* C16 witness: "[1.2.3,2)" was parsed to lower Including(1.2.3), upper
\* Excluding(2.0.0)
C16_Witness ==
    /\ ptOp = "parse"
    /\ ptText[1] = BracketsText("[", Text123, TRUE,
                       PVText(TokNum(2), TokNone, TokNone, TokNone, <<>>, <<>>), ")")
    /\ ptOut = Some(<<CSet(Lower(Including(Version(1, 2, 3, 0, <<>>, <<>>))),
                            Upper(Excluding(Version(2, 0, 0, 0, <<>>, <<>>))))>>)

\* "^1.2.3"
IsCaretText == ptText[1] = OpText("Caret", Text123)

\* C17: "^1.2.3" parses, and a version satisfies it exactly when it is at
\* least 1.2.3 and its major is 1: 1.9.9 does, 2.0.0 and 2.0.0-alpha do not.
C17_CaretAccepted ==
    /\ (ptOp = "parse" /\ IsCaretText) => IsSome(ptOut)
    /\ (ptOp = "satisfies" /\ IsCaretText)
          => (ptSat <=> /\ VersionLe(Version(1, 2, 3, 0, <<>>, <<>>), ptV)
                        /\ ptV.major = 1)

\* A plain text whose major is written as a number
IsPlainMajorText ==
    /\ ptText[1].form = "plain"
    /\ ptText[1].lower \in NumericTexts \cup WildcardTexts
    /\ ptText[1].lower.major.t = "num"

\* C18: the upper edge of a parsed plain range with major M is
\* Excluding((M+1).0.0-0), the pre-release being the single identifier
\* Numeric(0), and no version with the numbers (M+1).0.0, release or
\* pre-release, satisfies the range.
C18_PlainUpperMarker ==
    (IsPlainMajorText /\ IsSome(ptOut)) =>
        LET boundary == ptText[1].lower.major.n + 1
        IN /\ Unwrap(ptOut)[1].upper =
                 Upper(Excluding(Version(boundary, 0, 0, 0, <<Numeric(0)>>, <<>>)))
           /\ (ptOp = "satisfies" /\ ptV.major = boundary /\ ptV.minor = 0
                 /\ ptV.patch = 0 /\ ptV.revision = 0) => ~ptSat

\* C18 witness: the plain range "1" was asked about 2.0.0-alpha and refused it
C18_Witness ==
    /\ ptOp = "satisfies"
    /\ ptText[1] = PlainText(PVText(TokNum(1), TokNone, TokNone, TokNone, <<>>, <<>>))
    /\ ptV = Version(2, 0, 0, 0, <<AlphaNumeric(StrAlpha)>>, <<>>)
    /\ ~ptSat

----------------------------------------------------------------------------
(* Sessions *)

\* C19: every Range returned by Range::parse, Range::any, Range::intersect or
\* Range::difference holds at least one comparator; with no surviving
\* comparator intersect and difference return None.
C19_RangeNeverEmpty ==
    /\ Len(ra) >= 1
    /\ Len(rb) >= 1
    /\ IsSome(out) => Len(Unwrap(out)) >= 1

\* C19 witness: a difference left nothing and returned None
C19_Witness ==
    /\ op = "difference"
    /\ ~panic
    /\ out = None

\* C20: no operation of a session panics: neither an unwrap() on None in
\* difference nor an unreachable!() arm of the parser, of has_pre, of
\* satisfies or of Display is reached.
C20_NoPanic == ~panic

\* C20 witness: a difference split a range into two pieces around the other
C20_Witness ==
    /\ op = "difference"
    /\ ~panic
    /\ IsSome(out)
    /\ Len(Unwrap(out)) = 2
    /\ Len(rb) = 1

----------------------------------------------------------------------------
(* The version text *)

\* The text to_string is claimed to write for a version: major.minor.patch,
\* ".revision" when the revision is above 0, "-" and the pre-release
\* identifiers, "+" and the build identifiers
WrittenAs(v, text) ==
    /\ Len(text.core) = (IF v.revision = <<48>> THEN 3 ELSE 4)
    /\ text.core[1] = v.major /\ text.core[2] = v.minor /\ text.core[3] = v.patch
    /\ (v.revision # <<48>> => text.core[4] = v.revision)
    /\ IsSome(text.pre) = (v.pre_release # <<>>)
    /\ IsSome(text.build) = (v.build # <<>>)
    /\ (IsSome(text.pre) =>
           /\ Len(Unwrap(text.pre)) = Len(v.pre_release)
           /\ \A i \in 1..Len(v.pre_release) :
                 Unwrap(text.pre)[i] = IdentifierDisplay(v.pre_release[i]))
    /\ (IsSome(text.build) =>
           /\ Len(Unwrap(text.build)) = Len(v.build)
           /\ \A i \in 1..Len(v.build) :
                 Unwrap(text.build)[i] = IdentifierDisplay(v.build[i]))

\* C21: for every version v that Version::parse returns, v.to_string() is
\* major.minor.patch, the revision when above 0, the pre-release after "-"
\* and the build after "+", and Version::parse of that text succeeds and
\* returns a version equal to v.
C21_VersionTextRoundTrip ==
    /\ (vtOp \in {"printed", "reparsed"} => WrittenAs(vtRes.version, vtPrinted))
    /\ (vtOp = "reparsed" =>
           /\ vtRes2.kind = "Ok"
           /\ VersionEq(vtRes2.version, vtRes.version))
\* The number components of the text that exceed a limit, as their positions
ComponentsAbove(text, limit) ==
    {i \in 1..Len(text.core) : DigitsGreater(StripZeros(text.core[i]), limit)}

\* The text is made of numbers and of identifier characters
IsWellFormedText(text) ==
    /\ \A i \in 1..Len(text.core) : IsNumberText(text.core[i])
    /\ (IsSome(text.pre) => IdentsOk(Unwrap(text.pre)))
    /\ (IsSome(text.build) => IdentsOk(Unwrap(text.build)))

\* The claim as it is worded: whenever a component of a text made of numbers
\* exceeds MAX_SAFE_INTEGER, the parse fails with MaxIntError carrying the
\* value of such a component; a text whose components do not exceed it is
\* accepted.
C22_AnyComponentAboveCeiling ==
    (vtOp = "parsed" /\ IsWellFormedText(vtText)) =>
        LET over == ComponentsAbove(vtText, MAX_SAFE_INTEGER)
        IN IF over # {}
           THEN /\ vtRes.kind = "MaxIntError"
                /\ \E i \in over : vtRes.value = StripZeros(vtText.core[i])
           ELSE TextBytes(vtText) <= MAX_LENGTH => vtRes.kind = "Ok"

\* C22: for a text of at most MAX_LENGTH bytes made of numbers, when a
\* component (major, minor, patch or revision) exceeds MAX_SAFE_INTEGER the
\* parse fails with the error of the first such component: MaxIntError
\* carrying its value when the value fits a u64, ParseIntError when it does
\* not; when no component exceeds it, a component equal to MAX_SAFE_INTEGER
\* included, the text is accepted with the components as written.
C22_ComponentCeiling ==
    (vtOp = "parsed" /\ IsWellFormedText(vtText) /\ TextBytes(vtText) <= MAX_LENGTH) =>
        LET over == ComponentsAbove(vtText, MAX_SAFE_INTEGER)
            first == CHOOSE i \in over : \A j \in over : i <= j
        IN IF over # {}
           THEN IF first \in ComponentsAbove(vtText, U64Max)
                THEN vtRes.kind = "ParseIntError"
                ELSE /\ vtRes.kind = "MaxIntError"
                     /\ vtRes.value = StripZeros(vtText.core[first])
                     /\ vtRes.offset = CoreOffset(vtText, first)
           ELSE /\ vtRes.kind = "Ok"
                /\ vtRes.version.major = StripZeros(vtText.core[1])
                /\ \A i \in 1..Len(vtText.core) :
                      vtText.core[i] = MAX_SAFE_INTEGER =>
                          <<vtRes.version.major, vtRes.version.minor,
                            vtRes.version.patch, vtRes.version.revision>>[i]
                          = MAX_SAFE_INTEGER

\* C22 witness: the revision of a four-component text is one above the
\* ceiling and the parse failed with MaxIntError carrying it
C22_Witness ==
    /\ vtOp = "parsed"
    /\ Len(vtText.core) = 4
    /\ vtText.core[4] = DigitsSucc(MAX_SAFE_INTEGER)
    /\ vtRes.kind = "MaxIntError"
    /\ vtRes.value = DigitsSucc(MAX_SAFE_INTEGER)
\* The length of a text in characters
TextChars(text) ==
    LET count(ss) == Len(ss) - 1
                     + (LET RECURSIVE sum(_)
                            sum(k) == IF k = 0 THEN 0 ELSE Len(ss[k]) + sum(k - 1)
                        IN sum(Len(ss)))
    IN count(text.core)
       + (IF IsSome(text.pre) THEN 1 + count(Unwrap(text.pre)) ELSE 0)
       + (IF IsSome(text.build) THEN 1 + count(Unwrap(text.build)) ELSE 0)

\* C23: Version::parse returns the max-length error, at offset 0, for every
\* text longer than MAX_LENGTH characters, and for no text of MAX_LENGTH
\* characters or fewer.
C23_MaxLengthInCharacters ==
    vtOp = "parsed" =>
        /\ (vtRes.kind = "MaxLengthError" <=> TextChars(vtText) > MAX_LENGTH)
        /\ (vtRes.kind = "MaxLengthError" => vtRes.offset = 0)
----------------------------------------------------------------------------
(* The order of bounds *)

\* The position of a bound on the version line: the end of the line it is at
\* (-1 below every version, 1 above, 0 at a version), the version, and the
\* side of the version it lies on (-1 just below, 0 at, 1 just above)
Position(b) ==
    CASE Is(b, "Lower", "Unbounded") -> [end |-> 0 - 1, v |-> NoVersion, eps |-> 0]
      [] Is(b, "Upper", "Unbounded") -> [end |-> 1, v |-> NoVersion, eps |-> 0]
      [] Is(b, "Lower", "Excluding") -> [end |-> 0, v |-> b.p.v, eps |-> 1]
      [] Is(b, "Upper", "Excluding") -> [end |-> 0, v |-> b.p.v, eps |-> 0 - 1]
      [] OTHER -> [end |-> 0, v |-> b.p.v, eps |-> 0]

\* Positions compared lexicographically
PositionCmp(x, y) ==
    IF x.end # y.end THEN NumCmp(x.end, y.end)
    ELSE IF x.end # 0 THEN "Equal"
    ELSE IF VersionCmp(x.v, y.v) # "Equal" THEN VersionCmp(x.v, y.v)
    ELSE NumCmp(x.eps, y.eps)

\* C24: Bound::cmp(a, b) is the lexicographic comparison of the positions of
\* a and b, for every pair of bounds, of the same side or not, at the same
\* version or not.
C24_BoundCmpIsPositionOrder ==
    bop = "cmp" => bres = PositionCmp(Position(ba), Position(bb))

\* C25: Bound::cmp is a lawful total order: cmp(a, b) is the reverse of
\* cmp(b, a), a <= b and b <= c give a <= c, and the max of two lower bounds
\* and the min of two upper bounds do not depend on the order of the
\* arguments.
C25_BoundCmpLawful ==
    /\ (bop = "cmp" =>
           /\ bres = Reverse(BoundCmp(bb, ba))
           /\ \A c \in Bounds : (IsLe(bres) /\ BoundLe(bb, c)) => BoundLe(ba, c))
    /\ (bop = "max" => BoundEq(bout, BoundMax(bb, ba)))
    /\ (bop = "min" => BoundEq(bout, BoundMin(bb, ba)))
----------------------------------------------------------------------------
(* Well-formed comparator sets *)

\* A comparator set is well-formed: its lower edge is a Bound::Lower, its
\* upper edge a Bound::Upper, and between two versions the lower one is not
\* above the upper one, the two being equal only when both are Including
IsWellFormed(c) ==
    /\ c.lower.side = "Lower"
    /\ c.upper.side = "Upper"
    /\ (c.lower.p.kind # "Unbounded" /\ c.upper.p.kind # "Unbounded") =>
          /\ VersionLe(c.lower.p.v, c.upper.p.v)
          /\ (VersionEq(c.lower.p.v, c.upper.p.v) =>
                 c.lower.p.kind = "Including" /\ c.upper.p.kind = "Including")

\* C26: every ComparatorSet of a range obtained through parse, any, intersect
\* and difference is well-formed, and ComparatorSet::new, given the lower
\* edge of one of them and the upper edge of another, returns the pair when
\* it is well-formed and None otherwise.
C26_ComparatorSetsWellFormed ==
    /\ \A r \in {ra, rb} : \A i \in 1..Len(r) : IsWellFormed(r[i])
    /\ \A i \in 1..Len(ra) : \A j \in 1..Len(rb) :
          \A pair \in {<<ra[i].lower, rb[j].upper>>, <<rb[j].lower, ra[i].upper>>} :
             CSetNew(pair[1], pair[2]) =
                (IF IsWellFormed(CSet(pair[1], pair[2]))
                 THEN Some(CSet(pair[1], pair[2])) ELSE None)

\* C26 witness: a difference returned two pieces, and the lower edge of the
\* second with the upper edge of the first are refused by ComparatorSet::new
C26_Witness ==
    /\ op = "difference"
    /\ IsSome(out)
    /\ Len(ra) = 2
    /\ CSetNew(ra[2].lower, ra[1].upper) = None
----------------------------------------------------------------------------
(* Difference *)

\* C27: for single-interval ranges ra and rb, ra.difference(rb) returns, and
\* a version satisfies the result (None being satisfied by no version) if
\* and only if it satisfies ra and does not satisfy rb.
C27_SingleDifferenceIsSetDifference ==
    (op = "difference" /\ SingleIntervals) =>
        /\ ~panic
        /\ \A v \in ProbeVersions :
              OptSatisfies(out, v) <=> (RangeSatisfies(ra, v) /\ ~RangeSatisfies(rb, v))
\* C28: when rb is a union of several intervals, ra.difference(rb) returns
\* and no version that satisfies rb satisfies the result.
C28_UnionDifferenceExcludesAll ==
    (op = "difference" /\ Len(rb) >= 2) =>
        /\ ~panic
        /\ \A v \in ProbeVersions : RangeSatisfies(rb, v) => ~OptSatisfies(out, v)
----------------------------------------------------------------------------
(* The range text *)

\* C29: for every range r that Range::parse returns or that Range::any
\* builds, r.to_string() does not panic and Range::parse of the printed text
\* succeeds and returns a range equal to r, whatever the shapes Display
\* writes for its comparators.
C29_RangeTextRoundTrip ==
    /\ ptOp # "panic"
    /\ (ptOp = "reparse" =>
           /\ IsSome(ptOut2)
           /\ RangeEq(Unwrap(ptOut2), Unwrap(ptOut)))
----------------------------------------------------------------------------
(* The order of identifiers *)

\* C30: for every pair of identifiers partial_cmp(a, b) is Some(cmp(a, b)),
\* and a Numeric identifier is below an AlphaNumeric one through cmp and
\* through partial_cmp alike.
C30_PartialCmpAgreesWithCmp ==
    /\ (idop = "partial_cmp" => idpar = Some(IdentifierCmp(ida, idb)))
    /\ (ida.kind = "Numeric" /\ idb.kind = "AlphaNumeric") =>
          /\ (idop = "cmp" => idres = "Less")
          /\ (idop = "partial_cmp" => idpar = Some("Less"))
====
